---- MODULE Spec2Model ----
(***************************************************************************)
(* Verification model of the juggertools tactics board:                    *)
(*   - core-geometry : 2D affine matrix helpers (exact rational arithmetic)*)
(*   - core-engine   : CanvasEngine (transform, redraw scheduling)         *)
(*   - tools-draw    : DrawToolRegistry and its pointer tools              *)
(*   - tactics hosts : App with batched history, App with plain history    *)
(* Field coordinates are integers (field units); thresholds of the source  *)
(* that are decimals are kept as hundredths (suffix 100) and compared on   *)
(* squared distances, so that every comparison is exact.                   *)
(***************************************************************************)
EXTENDS Integers, Sequences, FiniteSets, TLC

(***************************************************************************)
(* Exact rationals <<n, d>> with d > 0 and gcd(n, d) = 1.                  *)
(***************************************************************************)
Abs(i) == IF i < 0 THEN -i ELSE i

RECURSIVE Gcd(_, _)
Gcd(a, b) == IF b = 0 THEN a ELSE Gcd(b, a % b)

Rat(n, d) ==
  LET s == IF d < 0 THEN -1 ELSE 1
      g == Gcd(Abs(n), Abs(d))
  IN  <<(s * n) \div g, (s * d) \div g>>

RInt(i) == <<i, 1>>
RAdd(p, q) == Rat(p[1] * q[2] + q[1] * p[2], p[2] * q[2])
RSub(p, q) == Rat(p[1] * q[2] - q[1] * p[2], p[2] * q[2])
RMul(p, q) == Rat(p[1] * q[1], p[2] * q[2])
RDiv(p, q) == Rat(p[1] * q[2], p[2] * q[1])
RNeg(p) == <<-p[1], p[2]>>
RLess(p, q) == p[1] * q[2] < q[1] * p[2]
RMin(p, q) == IF RLess(q, p) THEN q ELSE p
RZero == RInt(0)
ROne == RInt(1)

(***************************************************************************)
(* core-geometry                                                           *)
(***************************************************************************)
Mat(a, b, c, d, tx, ty) == [a |-> a, b |-> b, c |-> c, d |-> d, tx |-> tx, ty |-> ty]

IDENTITY_MATRIX == Mat(ROne, RZero, RZero, ROne, RZero, RZero)

\* matrixMultiply with m2 as the outer transform
matrixMultiplyReversed(m1, m2) ==
  Mat(RAdd(RMul(m2.a, m1.a), RMul(m2.c, m1.b)),
      RAdd(RMul(m2.b, m1.a), RMul(m2.d, m1.b)),
      RAdd(RMul(m2.a, m1.c), RMul(m2.c, m1.d)),
      RAdd(RMul(m2.b, m1.c), RMul(m2.d, m1.d)),
      RAdd(RAdd(RMul(m2.a, m1.tx), RMul(m2.c, m1.ty)), m2.tx),
      RAdd(RAdd(RMul(m2.b, m1.tx), RMul(m2.d, m1.ty)), m2.ty))

matrixMultiply(m1, m2) ==
  Mat(RAdd(RMul(m1.a, m2.a), RMul(m1.c, m2.b)),
      RAdd(RMul(m1.b, m2.a), RMul(m1.d, m2.b)),
      RAdd(RMul(m1.a, m2.c), RMul(m1.c, m2.d)),
      RAdd(RMul(m1.b, m2.c), RMul(m1.d, m2.d)),
      RAdd(RAdd(RMul(m1.a, m2.tx), RMul(m1.c, m2.ty)), m1.tx),
      RAdd(RAdd(RMul(m1.b, m2.tx), RMul(m1.d, m2.ty)), m1.ty))

matrixDeterminant(m) == RSub(RMul(m.a, m.d), RMul(m.b, m.c))

\* Math.abs(det) < Number.EPSILON: every matrix of the model has entries
\* whose numerators and denominators are far below 2^52, so a determinant
\* is below Number.EPSILON exactly when it is zero.
IsNotInvertible(m) == matrixDeterminant(m)[1] = 0

\* matrixInvert that leaves the translation of the inverse without its sign
matrixInvertUnsigned(m) ==
  LET invDet == RDiv(ROne, matrixDeterminant(m))
  IN  Mat(RMul(m.d, invDet),
          RMul(RNeg(m.b), invDet),
          RMul(RNeg(m.c), invDet),
          RMul(m.a, invDet),
          RMul(RSub(RMul(m.d, m.tx), RMul(m.c, m.ty)), invDet),
          RMul(RSub(RMul(m.a, m.ty), RMul(m.b, m.tx)), invDet))

\* matrixInvert for an invertible matrix (the caller tests IsNotInvertible
\* to model the throw).
matrixInvert(m) ==
  LET invDet == RDiv(ROne, matrixDeterminant(m))
  IN  Mat(RMul(m.d, invDet),
          RMul(RNeg(m.b), invDet),
          RMul(RNeg(m.c), invDet),
          RMul(m.a, invDet),
          RMul(RSub(RMul(m.c, m.ty), RMul(m.d, m.tx)), invDet),
          RMul(RSub(RMul(m.b, m.tx), RMul(m.a, m.ty)), invDet))

matrixApplyToPoint(m, p) ==
  [x |-> RAdd(RAdd(RMul(m.a, p.x), RMul(m.c, p.y)), m.tx),
   y |-> RAdd(RAdd(RMul(m.b, p.x), RMul(m.d, p.y)), m.ty)]

\* matrixRotate90 that turns clockwise whatever the direction
matrixRotate90Clockwise(m, direction) ==
  matrixMultiply(m, Mat(RZero, ROne, RInt(-1), RZero, RZero, RZero))

\* matrixRotate90(m, direction): m times the quarter turn, direction "cw" or "ccw"
matrixRotate90(m, direction) ==
  matrixMultiply(m, IF direction = "cw"
                    THEN Mat(RZero, ROne, RInt(-1), RZero, RZero, RZero)
                    ELSE Mat(RZero, RInt(-1), ROne, RZero, RZero, RZero))

matrixTranslate(tx, ty) == Mat(ROne, RZero, RZero, ROne, tx, ty)

matrixScale2(sx, sy) == Mat(sx, RZero, RZero, sy, RZero, RZero)

matrixScale(sx) == matrixScale2(sx, sx)

RECURSIVE composeFrom(_, _)
composeFrom(acc, transforms) ==
  IF transforms = <<>> THEN acc
  ELSE composeFrom(matrixMultiply(acc, Head(transforms)), Tail(transforms))

composeTransforms(transforms) == composeFrom(IDENTITY_MATRIX, transforms)

(***************************************************************************)
(* Numbers around Number.EPSILON                                           *)
(*                                                                         *)
(* Number.EPSILON is 2^-52, which no quotient of two TLC integers holds.   *)
(* Scaled(q, e) is the number q * 2^e for a rational q; the operators      *)
(* below are exact on it, and matrixDeterminantScaled and                  *)
(* matrixInvertScaled are matrixDeterminant and matrixInvert on matrices   *)
(* of such numbers.                                                        *)
(***************************************************************************)
RECURSIVE Pow2(_)
Pow2(n) == IF n = 0 THEN 1 ELSE 2 * Pow2(n - 1)

RAbs(q) == <<Abs(q[1]), q[2]>>

Scaled(q, e) == [q |-> q, e |-> e]

ScaledMul(x, y) == Scaled(RMul(x.q, y.q), x.e + y.e)

ScaledDiv(x, y) == Scaled(RDiv(x.q, y.q), x.e - y.e)

ScaledNeg(x) == Scaled(RNeg(x.q), x.e)

\* x - y, on the smaller of the two exponents
ScaledSub(x, y) ==
  LET e == IF x.e <= y.e THEN x.e ELSE y.e
  IN  Scaled(RSub(RMul(x.q, RInt(Pow2(x.e - e))), RMul(y.q, RInt(Pow2(y.e - e)))), e)

\* Math.abs(x) < Number.EPSILON, that is |q| < 2^(-52 - e).  A rational of
\* the model that is not zero lies between 2^-31 and 2^31 in magnitude,
\* which decides the comparison when -52 - e is outside -30..30.
BelowEpsilon(x) ==
  LET j == 0 - 52 - x.e
  IN  IF j <= -31 THEN x.q[1] = 0
      ELSE IF j >= 31 THEN TRUE
      ELSE IF j >= 0 THEN RLess(RAbs(x.q), RInt(Pow2(j)))
      ELSE RLess(RAbs(x.q), <<1, Pow2(0 - j)>>)

matrixDeterminantScaled(m) == ScaledSub(ScaledMul(m.a, m.d), ScaledMul(m.b, m.c))

NoMatrix == [a |-> "none"]

\* what a call returns: the value, or that it threw
Returned(value) == [threw |-> FALSE, value |-> value]

Threw == [threw |-> TRUE, value |-> NoMatrix]

\* matrixInvert that hands out the identity for a matrix it cannot invert
matrixInvertOrIdentity(m) ==
  LET det == matrixDeterminantScaled(m)
      invDet == ScaledDiv(Scaled(ROne, 0), det)
  IN  IF BelowEpsilon(det)
      THEN Returned(Mat(Scaled(ROne, 0), Scaled(RZero, 0), Scaled(RZero, 0),
                        Scaled(ROne, 0), Scaled(RZero, 0), Scaled(RZero, 0)))
      ELSE Returned(Mat(ScaledMul(m.d, invDet),
                        ScaledMul(ScaledNeg(m.b), invDet),
                        ScaledMul(ScaledNeg(m.c), invDet),
                        ScaledMul(m.a, invDet),
                        ScaledMul(ScaledSub(ScaledMul(m.c, m.ty), ScaledMul(m.d, m.tx)),
                                  invDet),
                        ScaledMul(ScaledSub(ScaledMul(m.b, m.tx), ScaledMul(m.a, m.ty)),
                                  invDet)))

\* matrixInvert(m): throws when Math.abs(det) < Number.EPSILON
matrixInvertScaled(m) ==
  LET det == matrixDeterminantScaled(m)
      invDet == ScaledDiv(Scaled(ROne, 0), det)
  IN  IF BelowEpsilon(det) THEN Threw
      ELSE Returned(Mat(ScaledMul(m.d, invDet),
                        ScaledMul(ScaledNeg(m.b), invDet),
                        ScaledMul(ScaledNeg(m.c), invDet),
                        ScaledMul(m.a, invDet),
                        ScaledMul(ScaledSub(ScaledMul(m.c, m.ty), ScaledMul(m.d, m.tx)),
                                  invDet),
                        ScaledMul(ScaledSub(ScaledMul(m.b, m.tx), ScaledMul(m.a, m.ty)),
                                  invDet)))

\* no core-geometry function has been called directly
NotEvaluated == [op |-> "none"]

(***************************************************************************)
(* Bounds of the model                                                     *)
(***************************************************************************)
\* ghost counter of scheduleDraw() calls since the last frame saturates here
MaxSchedCalls == 2
\* pointer events that update the scene in one run of two pointers
MaxSceneUpdates == 2
\* pointer events that update the scene in one run of a single pointer
MaxGestureUpdates == 2
\* drops in one run of the history (beyond HISTORY_CAPACITY + 5)
MaxEdits == 36
\* erase events in one run of the eraser
MaxErases == 3
\* recorded points in one run of the pen
MaxPenSamples == 3
\* drag moves in one run of the select tool
MaxSelectDrags == 1
\* drag moves in one run of the drags
MaxTokenDrags == 2
\* pointer events that update the scene in one run of the registry
MaxRegistryUpdates == 1
\* pointer events that update the scene in one run of the drawing ids
MaxIdUpdates == 3
\* pointer events and drops that update the scene in one run of the clock
MaxClockUpdates == 2

(***************************************************************************)
(* State                                                                   *)
(***************************************************************************)
VARIABLES
  \* ---- CanvasEngine (core-engine) ----
  engineScene,      \* CanvasEngine.scene (NoScene = undefined)
  viewport,         \* CanvasEngine.viewport
  fieldToCanvas,    \* CanvasEngine.fieldToCanvas
  canvasToField,    \* CanvasEngine.canvasToField
  transformMode,    \* CanvasEngine.transformMode
  dpr,              \* CanvasEngine.dpr
  rafHandle,        \* CanvasEngine.rafHandle (0 = null)
  rafQueue,         \* callbacks of this engine waiting in requestAnimationFrame
  destroyed,        \* CanvasEngine.destroyed
  layerRenderers,   \* CanvasEngine.layerRenderers: layer -> renderers in insertion order
  rendered,         \* the draw() calls of the step just taken: how many, and what
                    \* the renderers were handed (NoDraw when the step drew nothing)
  lastCall,         \* the engine call of the step just taken and whether it threw
  requestStale,     \* ghost: the scene or the transform changed after the pending
                    \* frame was requested
  schedCalls,       \* ghost: scheduleDraw() calls since the last frame or cancel
  \* ---- CanvasEngine: pointer listeners (framed with the host's variables) ----
  pointerHandlers,  \* CanvasEngine.pointerHandlers: type -> handlers in insertion order
  dispatched        \* ghost: the handler calls of the last canvas pointer event

engineVars == <<engineScene, viewport, fieldToCanvas, canvasToField, transformMode,
                dpr, rafHandle, rafQueue, destroyed, layerRenderers, rendered,
                lastCall, requestStale, schedCalls>>

NoScene == [id |-> "none"]

layerOrder == <<"background", "drawings", "tokens", "overlay">>

PointerEventTypes == {"down", "move", "up", "cancel"}

LayerIds == {layerOrder[i] : i \in 1..Len(layerOrder)}

\* Scenes handed to the engine: id, field size and orientation are what the
\* engine reads (computeFitTransform).
EngineSceneOf(id, w, h, o) ==
  [id |-> id, field |-> [width |-> w, height |-> h], orientation |-> o]

EngineScenes ==
  { EngineSceneOf("s1", 100, 50, "landscape"),
    EngineSceneOf("s2", 100, 50, "portrait") }

Viewports == { [width |-> 200, height |-> 200],
               [width |-> 0, height |-> 100] }

\* Size of the canvas element when the engine is constructed.
InitialViewports == { [width |-> 200, height |-> 200] }

\* Matrices a caller hands to setTransform: a scale with a translation, a
\* quarter turn, and a matrix that cannot be inverted.
TransformInputs ==
  { matrixMultiply(matrixScale(RInt(2)), matrixTranslate(RInt(10), RInt(-5))),
    Mat(RZero, ROne, RNeg(ROne), RZero, RInt(50), RZero),
    matrixScale2(RInt(2), RZero) }

(***************************************************************************)
(* CanvasEngine helpers                                                    *)
(***************************************************************************)
\* scheduleDraw(): no-op while a frame is requested, otherwise request one.
scheduleDrawMissingGuard(raf) == [handle |-> 1, queue |-> raf.queue + 1]

scheduleDraw(raf) ==
  IF raf.handle # 0 THEN raf ELSE [handle |-> 1, queue |-> raf.queue + 1]

autoscale(srcWidth, srcHeight, dstWidth, dstHeight) ==
  IF srcWidth = 0 \/ srcHeight = 0 THEN ROne
  ELSE RMin(Rat(dstWidth, srcWidth), Rat(dstHeight, srcHeight))

\* The matrix computeFitTransform hands to applyTransform.
fitTransform(sc, vp) ==
  LET portrait == sc.orientation = "portrait"
      effectiveWidth == IF portrait THEN sc.field.height ELSE sc.field.width
      effectiveHeight == IF portrait THEN sc.field.width ELSE sc.field.height
      scale == autoscale(effectiveWidth, effectiveHeight, vp.width, vp.height)
      centerOffset ==
        matrixTranslate(
          RDiv(RSub(RInt(vp.width), RMul(RInt(effectiveWidth), scale)), RInt(2)),
          RDiv(RSub(RInt(vp.height), RMul(RInt(effectiveHeight), scale)), RInt(2)))
      scaleMatrix == matrixScale(scale)
      rotate == Mat(RZero, ROne, RNeg(ROne), RZero, RZero, RZero)
      translate == matrixTranslate(RInt(sc.field.height), RZero)
      orientationMatrix ==
        IF portrait THEN matrixMultiply(translate, rotate) ELSE IDENTITY_MATRIX
  IN  composeTransforms(<<centerOffset, scaleMatrix, orientationMatrix>>)

\* fitSceneToViewport that leaves the padding out of the offset
fitSceneToViewportUnpadded(sc, vp, padding) ==
  LET pad == IF padding > 0 THEN padding ELSE 0
      paddedWidth == IF vp.width - pad * 2 > 1 THEN vp.width - pad * 2 ELSE 1
      paddedHeight == IF vp.height - pad * 2 > 1 THEN vp.height - pad * 2 ELSE 1
      portrait == sc.orientation = "portrait"
      width == IF portrait THEN sc.field.height ELSE sc.field.width
      height == IF portrait THEN sc.field.width ELSE sc.field.height
      scale == RMin(Rat(paddedWidth, width), Rat(paddedHeight, height))
      offset ==
        matrixTranslate(
          RDiv(RSub(RInt(paddedWidth), RMul(RInt(width), scale)), RInt(2)),
          RDiv(RSub(RInt(paddedHeight), RMul(RInt(height), scale)), RInt(2)))
      scaleMatrix == matrixScale(scale)
      rotate == Mat(RZero, ROne, RNeg(ROne), RZero, RZero, RZero)
      translate == matrixTranslate(RInt(sc.field.height), RZero)
      orientationMatrix ==
        IF portrait THEN matrixMultiply(translate, rotate) ELSE IDENTITY_MATRIX
  IN  composeTransforms(<<offset, scaleMatrix, orientationMatrix>>)

\* fitSceneToViewport(scene, viewport, { padding }), for a field of positive
\* width and height: Math.max(0, padding), Math.max(1, viewport - padding * 2)
fitSceneToViewport(sc, vp, padding) ==
  LET pad == IF padding > 0 THEN padding ELSE 0
      paddedWidth == IF vp.width - pad * 2 > 1 THEN vp.width - pad * 2 ELSE 1
      paddedHeight == IF vp.height - pad * 2 > 1 THEN vp.height - pad * 2 ELSE 1
      portrait == sc.orientation = "portrait"
      width == IF portrait THEN sc.field.height ELSE sc.field.width
      height == IF portrait THEN sc.field.width ELSE sc.field.height
      scale == RMin(Rat(paddedWidth, width), Rat(paddedHeight, height))
      offset ==
        matrixTranslate(
          RAdd(RInt(pad),
               RDiv(RSub(RInt(paddedWidth), RMul(RInt(width), scale)), RInt(2))),
          RAdd(RInt(pad),
               RDiv(RSub(RInt(paddedHeight), RMul(RInt(height), scale)), RInt(2))))
      scaleMatrix == matrixScale(scale)
      rotate == Mat(RZero, ROne, RNeg(ROne), RZero, RZero, RZero)
      translate == matrixTranslate(RInt(sc.field.height), RZero)
      orientationMatrix ==
        IF portrait THEN matrixMultiply(translate, rotate) ELSE IDENTITY_MATRIX
  IN  composeTransforms(<<offset, scaleMatrix, orientationMatrix>>)

\* The part of the engine that the transform operations rewrite.
EngineTransformState ==
  [fieldToCanvas |-> fieldToCanvas, canvasToField |-> canvasToField,
   transformMode |-> transformMode,
   raf |-> [handle |-> rafHandle, queue |-> rafQueue],
   thrown |-> FALSE, scheduled |-> FALSE]

\* applyTransform(matrix, mode): the assignments run in source order, and
\* matrixInvert throws after fieldToCanvas has been assigned.
applyTransformWithoutDpr(st, matrix, mode) ==
  CHOOSE next \in
    { IF IsNotInvertible(m)
      THEN [st EXCEPT !.fieldToCanvas = m, !.thrown = TRUE]
      ELSE [st EXCEPT !.fieldToCanvas = m,
                      !.canvasToField = matrixInvert(m),
                      !.transformMode = mode,
                      !.raf = scheduleDraw(st.raf),
                      !.scheduled = TRUE] : m \in {matrix} } : TRUE

applyTransform(st, matrix, mode) ==
  LET scaled == composeTransforms(<<matrixScale(RInt(dpr)), matrix>>)
  IN  CHOOSE next \in
        { IF IsNotInvertible(m)
          THEN [st EXCEPT !.fieldToCanvas = m, !.thrown = TRUE]
          ELSE [st EXCEPT !.fieldToCanvas = m,
                          !.canvasToField = matrixInvert(m),
                          !.transformMode = mode,
                          !.raf = scheduleDraw(st.raf),
                          !.scheduled = TRUE] : m \in {scaled} } : TRUE

computeFitTransform(st, sc, vp) ==
  IF sc = NoScene THEN st
  ELSE applyTransform(st, fitTransform(sc, vp), "auto")

\* resize / setScene share their tail: recompute in auto mode with a scene,
\* otherwise only schedule a redraw.
RefitInEveryMode(st, sc, vp) ==
  IF sc # NoScene
  THEN computeFitTransform(st, sc, vp)
  ELSE [st EXCEPT !.raf = scheduleDraw(st.raf), !.scheduled = TRUE]

RefitOrSchedule(st, sc, vp) ==
  IF sc # NoScene /\ st.transformMode = "auto"
  THEN computeFitTransform(st, sc, vp)
  ELSE [st EXCEPT !.raf = scheduleDraw(st.raf), !.scheduled = TRUE]

Saturate(n) == IF n < MaxSchedCalls THEN n + 1 ELSE n

Call(op, threw) == [op |-> op, thrown |-> threw]

\* `dispatched` before any canvas pointer event
NoDispatch == [type |-> "none", calls |-> <<>>]

\* Ghost bookkeeping: a call that leaves scene sc and transform m behind makes
\* a frame request that was already pending stale when it changes either.
NoteChange(sc, m) ==
  requestStale' = (requestStale \/ (rafHandle # 0 /\ (sc # engineScene \/ m # fieldToCanvas)))

\* Writes an EngineTransformState back to the engine's fields; sc is the scene
\* the engine holds when the call returns.
CommitTransformState(op, st, sc) ==
  /\ fieldToCanvas' = st.fieldToCanvas
  /\ canvasToField' = st.canvasToField
  /\ transformMode' = st.transformMode
  /\ rafHandle' = st.raf.handle
  /\ rafQueue' = st.raf.queue
  /\ lastCall' = Call(op, st.thrown)
  /\ NoteChange(sc, st.fieldToCanvas)
  /\ schedCalls' = IF st.scheduled THEN Saturate(schedCalls) ELSE schedCalls

(***************************************************************************)
(* CanvasEngine: layer renderers and draw()                                *)
(***************************************************************************)
\* Renderer callbacks and the layer the host registers each one on; the
\* later layer's callback can be registered first.
Callbacks == {"drawingsRenderer", "backgroundRenderer"}

\* Further callbacks: two more for the background layer, and one that the
\* host registers on a layer the engine does not have.
LayerCallbacks == Callbacks \cup {"gridRenderer", "debugRenderer"}

LayerOf(r) ==
  CASE r = "drawingsRenderer" -> "drawings"
    [] r = "debugRenderer" -> "debug"
    [] OTHER -> "background"

\* What the callbacks do with the context they are handed: gridRenderer sets
\* fillStyle and translates and returns without undoing either,
\* faultyRenderer throws, the others leave the context as they found it.
StylingRenderers == {"gridRenderer"}

FaultyRenderers == {"faultyRenderer"}

\* The 2D context: its drawing state (of which the model follows fillStyle and
\* the transform) and the stack of saved states.  Left out: what the context
\* holds between two draws, and the form lines drawn before the layers.
CtxInit ==
  [state |-> [fillStyle |-> "default", transform |-> <<"identity">>], stack |-> <<>>]

\* ctx.save(), ctx.restore(), ctx.clearRect(...), ctx.setTransform(fieldToCanvas)
CtxAfter(ctx, op) ==
  CASE op = "save" -> [ctx EXCEPT !.stack = Append(@, ctx.state)]
    [] op = "restore" ->
         IF ctx.stack = <<>> THEN ctx
         ELSE [state |-> ctx.stack[Len(ctx.stack)],
               stack |-> SubSeq(ctx.stack, 1, Len(ctx.stack) - 1)]
    [] op = "setTransform" -> [ctx EXCEPT !.state.transform = <<"fieldToCanvas">>]
    [] OTHER -> ctx

\* renderer(this.ctx, state): the context the renderer leaves
Painted(ctx, r) ==
  IF r \in StylingRenderers
  THEN [ctx EXCEPT !.state = [fillStyle |-> r, transform |-> @.transform \o <<r>>]]
  ELSE ctx

\* One pass of draw() so far: the context, the calls on the context and on the
\* renderers in call order, and whether a renderer threw
RunInit == [ctx |-> CtxInit, trace |-> <<>>, threw |-> FALSE]

CtxCall(run, op) ==
  [run EXCEPT !.ctx = CtxAfter(@, op), !.trace = Append(@, [op |-> op])]

\* for (const renderer of renderers) renderer(this.ctx, state), from renderer i on
RECURSIVE RunRenderers(_, _, _)
RunRenderers(renderers, i, run) ==
  IF i > Len(renderers) THEN run
  ELSE IF renderers[i] \in FaultyRenderers
  THEN [run EXCEPT !.threw = TRUE,
                   !.trace = Append(@, [op |-> "render", renderer |-> renderers[i],
                                        saw |-> run.ctx.state])]
  ELSE RunRenderers(renderers, i + 1,
                    [run EXCEPT !.ctx = Painted(@, renderers[i]),
                                !.trace = Append(@, [op |-> "render",
                                                     renderer |-> renderers[i],
                                                     saw |-> run.ctx.state])])

\* for (const layer of this.layerOrder), from layer i on; an exception leaves
\* the loop and draw()
RECURSIVE RunLayers(_, _)
AfterLayer(i, ran) ==
  IF ran.threw THEN ran ELSE RunLayers(i + 1, CtxCall(ran, "restore"))

RunLayers(i, run) ==
  IF i > Len(layerOrder) THEN run
  ELSE IF layerOrder[i] \notin DOMAIN layerRenderers \/ layerRenderers[layerOrder[i]] = <<>>
  THEN RunLayers(i + 1, run)
  ELSE AfterLayer(i, RunRenderers(layerRenderers[layerOrder[i]], 1,
                                  CtxCall(CtxCall(run, "save"), "setTransform")))

AfterLayers(ran) == IF ran.threw THEN ran ELSE CtxCall(ran, "restore")

\* the body of draw() on a live engine
DrawPass == AfterLayers(RunLayers(1, CtxCall(CtxCall(RunInit, "save"), "clearRect")))

\* the renderers called in a trace, in call order
RenderedIn(calls) == [i \in 1..Len(calls) |-> calls[i].renderer]

RenderedBy(trace) == RenderedIn(SelectSeq(trace, LAMBDA e : e.op = "render"))

NoDraw == [draws |-> 0]

\* The RenderState that draw() builds at the moment it runs.
RenderStateWithoutScene ==
  [scene |-> NoScene, fieldToCanvas |-> fieldToCanvas,
   canvasToField |-> canvasToField, devicePixelRatio |-> dpr, viewport |-> viewport]

RenderStateNow ==
  [scene |-> engineScene, fieldToCanvas |-> fieldToCanvas,
   canvasToField |-> canvasToField, devicePixelRatio |-> dpr, viewport |-> viewport]

\* what a pass of draw() on a live engine leaves in `rendered`
Drawn(n, requests, stale, run) ==
  [draws |-> n, drew |-> TRUE, requests |-> requests, stale |-> stale,
   state |-> RenderStateNow, calls |-> RenderedBy(run.trace), trace |-> run.trace,
   threw |-> run.threw]

\* draw(): nothing when destroyed; otherwise every registered renderer, layer
\* by layer, is called with the same RenderState.
\* n: how many frame callbacks call draw(); requests and stale are ghost labels
\* (scheduleDraw() calls served, state changed since the request).
draw(n, requests, stale) ==
  IF destroyed
  THEN [draws |-> n, drew |-> FALSE, requests |-> requests, stale |-> stale,
        calls |-> <<>>, trace |-> <<>>, threw |-> FALSE]
  ELSE Drawn(n, requests, stale, DrawPass)

\* a registry that keeps every registration of a renderer
SeqAddAlways(q, e) == Append(q, e)

\* registry.add(renderer) on a Set: a renderer the layer holds stays where it is
SeqAddUnique(q, e) == IF \E i \in 1..Len(q) : q[i] = e THEN q ELSE Append(q, e)

SeqRemove(q, e) == SelectSeq(q, LAMBDA x : x # e)

(***************************************************************************)
(* CanvasEngine: operations                                                *)
(***************************************************************************)
EngineInitWith(ratios) ==
  \E d \in ratios, vp \in InitialViewports :
    /\ dpr = d
    /\ viewport = vp
    /\ engineScene = EngineSceneOf("engine-default", vp.width, vp.height, "landscape")
    /\ LET st0 == [fieldToCanvas |-> IDENTITY_MATRIX, canvasToField |-> IDENTITY_MATRIX,
                   transformMode |-> "auto",
                   raf |-> scheduleDraw([handle |-> 0, queue |-> 0]),
                   thrown |-> FALSE, scheduled |-> TRUE]
           st == computeFitTransform(st0, engineScene, vp)
       IN  /\ fieldToCanvas = st.fieldToCanvas
           /\ canvasToField = st.canvasToField
           /\ transformMode = st.transformMode
           /\ rafHandle = st.raf.handle
           /\ rafQueue = st.raf.queue
           /\ lastCall = Call("constructor", st.thrown)
    /\ destroyed = FALSE
    /\ layerRenderers = [l \in LayerIds |-> <<>>]
    /\ pointerHandlers = [type \in PointerEventTypes |-> <<>>]
    /\ dispatched = NoDispatch
    /\ rendered = NoDraw
    /\ requestStale = FALSE
    /\ schedCalls = 2

\* setScene(scene).  The host that owns the engine drops it after destroy(),
\* so the scene, transform and size operations are taken on a live engine.
SetScene(sc) ==
  /\ ~destroyed
  /\ engineScene' = sc
  /\ \E st \in {RefitOrSchedule(EngineTransformState, sc, viewport)} :
       CommitTransformState("setScene", st, sc)
  /\ rendered' = NoDraw
  /\ UNCHANGED <<viewport, dpr, destroyed, layerRenderers>>

\* setTransform(matrix)
SetTransform(m) ==
  /\ ~destroyed
  /\ \E st \in {applyTransform(EngineTransformState, m, "custom")} :
       CommitTransformState("setTransform", st, engineScene)
  /\ rendered' = NoDraw
  /\ UNCHANGED <<engineScene, viewport, dpr, destroyed, layerRenderers>>

\* autoFitScene()
AutoFitScene ==
  /\ ~destroyed
  /\ \E st \in {[EngineTransformState EXCEPT !.transformMode = "auto"]} :
       \E st2 \in {IF engineScene # NoScene
                    THEN computeFitTransform(st, engineScene, viewport)
                    ELSE [st EXCEPT !.raf = scheduleDraw(st.raf), !.scheduled = TRUE]} :
         CommitTransformState("autoFitScene", st2, engineScene)
  /\ rendered' = NoDraw
  /\ UNCHANGED <<engineScene, viewport, dpr, destroyed, layerRenderers>>

\* resize(width, height)
Resize(vp) ==
  /\ ~destroyed
  /\ viewport' = vp
  /\ \E st \in {RefitOrSchedule(EngineTransformState, engineScene, vp)} :
       CommitTransformState("resize", st, engineScene)
  /\ rendered' = NoDraw
  /\ UNCHANGED <<engineScene, dpr, destroyed, layerRenderers>>

\* scheduleDraw() called from outside the engine
ScheduleDraw ==
  /\ \E st \in {EngineTransformState} :
       CommitTransformState("scheduleDraw",
         [st EXCEPT !.raf = scheduleDraw(st.raf), !.scheduled = TRUE], engineScene)
  /\ rendered' = NoDraw
  /\ UNCHANGED <<engineScene, viewport, dpr, destroyed, layerRenderers>>

\* registerLayerRenderer(layer, renderer)
RegisterLayerRenderer(r) ==
  /\ IF LayerOf(r) \notin DOMAIN layerRenderers
     THEN /\ lastCall' = Call("registerLayerRenderer", TRUE)
          /\ UNCHANGED <<layerRenderers, rafHandle, rafQueue, schedCalls>>
     ELSE /\ layerRenderers' =
               [layerRenderers EXCEPT ![LayerOf(r)] = SeqAddUnique(@, r)]
          /\ LET raf == scheduleDraw([handle |-> rafHandle, queue |-> rafQueue])
             IN  rafHandle' = raf.handle /\ rafQueue' = raf.queue
          /\ schedCalls' = Saturate(schedCalls)
          /\ lastCall' = Call("registerLayerRenderer", FALSE)
  /\ rendered' = NoDraw
  /\ UNCHANGED <<engineScene, viewport, fieldToCanvas, canvasToField, transformMode,
                 dpr, destroyed, requestStale>>

\* the dispose function returned by registerLayerRenderer, once the engine
\* holds the renderer (disposing again only schedules a redraw)
DisposeRenderer(r) ==
  /\ LayerOf(r) \in DOMAIN layerRenderers
  /\ \E i \in 1..Len(layerRenderers[LayerOf(r)]) : layerRenderers[LayerOf(r)][i] = r
  /\ layerRenderers' = [layerRenderers EXCEPT ![LayerOf(r)] = SeqRemove(@, r)]
  /\ LET raf == scheduleDraw([handle |-> rafHandle, queue |-> rafQueue])
     IN  rafHandle' = raf.handle /\ rafQueue' = raf.queue
  /\ schedCalls' = Saturate(schedCalls)
  /\ lastCall' = Call("dispose", FALSE)
  /\ rendered' = NoDraw
  /\ UNCHANGED <<engineScene, viewport, fieldToCanvas, canvasToField, transformMode,
                 dpr, destroyed, requestStale>>

\* draw() called synchronously by the host
DrawNow ==
  /\ ~destroyed
  /\ \E drawn \in {draw(1, 0, FALSE)} :
       /\ rendered' = drawn
       /\ lastCall' = Call("draw", drawn.threw)
  /\ UNCHANGED <<engineScene, viewport, fieldToCanvas, canvasToField, transformMode,
                 dpr, rafHandle, rafQueue, destroyed, layerRenderers, schedCalls,
                 requestStale>>

\* The browser's animation frame: every requested callback runs, each one
\* clears rafHandle and calls draw(ts).
AnimationFrame ==
  /\ rafQueue > 0
  /\ rafHandle' = 0
  /\ rafQueue' = 0
  /\ rendered' = draw(rafQueue, schedCalls, requestStale)
  /\ schedCalls' = 0
  /\ requestStale' = FALSE
  /\ lastCall' = Call("animationFrame", FALSE)
  /\ UNCHANGED <<engineScene, viewport, fieldToCanvas, canvasToField, transformMode,
                 dpr, destroyed, layerRenderers>>

\* screenToField without the device pixel ratio
screenToFieldUnscaled(toField, ratio, client, origin) ==
  matrixApplyToPoint(toField, [x |-> RSub(client.x, origin.x),
                               y |-> RSub(client.y, origin.y)])

\* screenToField(clientX, clientY); origin is the (left, top) of
\* canvas.getBoundingClientRect(), toField and ratio are this.canvasToField
\* and this.dpr.
screenToField(toField, ratio, client, origin) ==
  matrixApplyToPoint(toField, [x |-> RMul(RSub(client.x, origin.x), RInt(ratio)),
                               y |-> RMul(RSub(client.y, origin.y), RInt(ratio))])

\* The PointerContext dispatchPointer builds for an event.
PointerContextOf(type, client, origin, buttons) ==
  [type |-> type,
   canvasPoint |-> [x |-> RMul(RSub(client.x, origin.x), RInt(dpr)),
                    y |-> RMul(RSub(client.y, origin.y), RInt(dpr))],
   fieldPoint |-> screenToField(canvasToField, dpr, client, origin),
   buttons |-> buttons]

\* onPointer(type, handler): set.add(handler)
OnPointer(type, h) ==
  /\ pointerHandlers' = [pointerHandlers EXCEPT ![type] = SeqAddUnique(@, h)]
  /\ lastCall' = Call("onPointer", FALSE)
  /\ rendered' = NoDraw
  /\ UNCHANGED <<engineScene, viewport, fieldToCanvas, canvasToField, transformMode,
                 dpr, rafHandle, rafQueue, destroyed, layerRenderers, requestStale,
                 schedCalls, dispatched>>

\* the function returned by onPointer(type, handler), once the engine holds
\* the handler: set.delete(handler)
DisposePointer(type, h) ==
  /\ \E i \in 1..Len(pointerHandlers[type]) : pointerHandlers[type][i] = h
  /\ pointerHandlers' = [pointerHandlers EXCEPT ![type] = SeqRemove(@, h)]
  /\ lastCall' = Call("disposePointer", FALSE)
  /\ rendered' = NoDraw
  /\ UNCHANGED <<engineScene, viewport, fieldToCanvas, canvasToField, transformMode,
                 dpr, rafHandle, rafQueue, destroyed, layerRenderers, requestStale,
                 schedCalls, dispatched>>

\* A pointer event of the canvas element: the listener of its type calls
\* dispatchPointer(type, event).  destroy() detaches the listeners, so the
\* event reaches a live engine only.  With no handler of the type nothing is
\* computed; otherwise every handler of the set is called with one context.
DispatchPointer(type, client, origin, buttons) ==
  /\ ~destroyed
  /\ dispatched' =
       [type |-> type, client |-> client, origin |-> origin,
        calls |-> [i \in 1..Len(pointerHandlers[type]) |->
                     [handler |-> pointerHandlers[type][i],
                      context |-> PointerContextOf(type, client, origin, buttons)]]]
  /\ lastCall' = Call("dispatchPointer", FALSE)
  /\ rendered' = NoDraw
  /\ UNCHANGED <<engineScene, viewport, fieldToCanvas, canvasToField, transformMode,
                 dpr, rafHandle, rafQueue, destroyed, layerRenderers, requestStale,
                 schedCalls, pointerHandlers>>

\* destroy()
Destroy ==
  /\ ~destroyed
  /\ destroyed' = TRUE
  /\ rafHandle' = 0
  /\ rafQueue' = IF rafHandle # 0 /\ rafQueue > 0 THEN rafQueue - 1 ELSE rafQueue
  /\ schedCalls' = 0
  /\ layerRenderers' = <<>>
  /\ requestStale' = FALSE
  /\ lastCall' = Call("destroy", FALSE)
  /\ rendered' = NoDraw
  /\ UNCHANGED <<engineScene, viewport, fieldToCanvas, canvasToField, transformMode,
                 dpr>>

(***************************************************************************)
(* tools-draw: lengths and hit tests                                       *)
(*                                                                         *)
(* Field coordinates are integers.  Lengths of the source (radii, widths,  *)
(* thresholds) are kept in hundredths of a field unit and compared with    *)
(* squared integer distances, so every comparison of the source is exact.  *)
(***************************************************************************)
\* VISUAL_SCALE = 3.4, in tenths
VISUAL_SCALE == 34

TOKEN_HIT_RADIUS == 32 * VISUAL_SCALE

LINE_HANDLE_RADIUS == 36 * VISUAL_SCALE

LINE_HIT_THRESHOLD == 16 * VISUAL_SCALE

\* default stroke widths of the line, pen and arrow tools; radius of the eraser
LineWidth == 16 * VISUAL_SCALE

PenWidth == 20 * VISUAL_SCALE

ArrowWidth == 25 * VISUAL_SCALE

EraserRadius == 32 * VISUAL_SCALE

\* squared radius of a new cone (2 * VISUAL_SCALE), in hundredths of a square unit
ConeRadiusSq == (VISUAL_SCALE * VISUAL_SCALE * 4)

\* smallest squared cone radius: Math.max(0.5, ...) squared, in hundredths
MinConeRadiusSq == 25

Max(a, b) == IF a >= b THEN a ELSE b

Min(a, b) == IF a <= b THEN a ELSE b

Pt(x, y) == <<x, y>>

DistSq(a, b) == (a[1] - b[1]) * (a[1] - b[1]) + (a[2] - b[2]) * (a[2] - b[2])

\* distance(a, b) <= r, r in hundredths
Within(a, b, r) == DistSq(a, b) * 10000 <= r * r

\* distance(a, b) < r, r in hundredths
Below(a, b, r) == DistSq(a, b) * 10000 < r * r

\* distanceToSegment(p, a, b) <= r, r in hundredths.  With the projection
\* strictly between the ends the squared distance is cross^2 / |ab|^2.
SegmentWithin(p, a, b, r) ==
  LET abx == b[1] - a[1]
      aby == b[2] - a[2]
      apx == p[1] - a[1]
      apy == p[2] - a[2]
      abLenSq == abx * abx + aby * aby
      dot == apx * abx + apy * aby
      cross == apx * aby - apy * abx
      q == (r * r) \div 10000
      rest == (r * r) % 10000
      over == cross * cross - q * abLenSq
  IN  IF abLenSq = 0 \/ dot <= 0 THEN Within(p, a, r)
      ELSE IF dot >= abLenSq THEN Within(p, b, r)
      ELSE over <= 0 \/ (over <= abLenSq /\ over * 10000 <= rest * abLenSq)

\* isPointNearLine(points, x, y, strokeWidth) of SelectTool (fewer than two
\* points: false) and of LineTool (no such test: the loop runs zero times)
isPointNearLine(points, p, strokeWidth) ==
  LET threshold == Max(LINE_HIT_THRESHOLD, strokeWidth \div 2)
  IN  \E i \in 2..Len(points) : SegmentWithin(p, points[i - 1], points[i], threshold)

getLineEndpoints(points) ==
  LET start == IF Len(points) > 0 THEN points[1] ELSE Pt(0, 0)
  IN  [start |-> start, end |-> IF Len(points) > 1 THEN points[Len(points)] ELSE start]

(***************************************************************************)
(* core-domain: scenes                                                     *)
(***************************************************************************)
Token(id, x, y) == [id |-> id, x |-> x, y |-> y]

\* A drawing: pts holds points (line, pen), <<from, to>> (arrow) or <<at>>
\* (cone); size is the stroke width in hundredths, for a cone its squared
\* radius in hundredths of a square unit.  Colours and meta are left out.
Drawing(id, kind, pts, size) == [id |-> id, kind |-> kind, pts |-> pts, size |-> size]

\* A scene snapshot: id, field and orientation are what the engine reads,
\* tokens and drawings what the tools and the history work on.
Scene(tokens, drawings) ==
  [id |-> "board", field |-> [width |-> 100, height |-> 50],
   orientation |-> "landscape", tokens |-> tokens, drawings |-> drawings]

MapSeq(q, Op(_)) == [i \in 1..Len(q) |-> Op(q[i])]

HasDrawing(sc, id) == \E i \in 1..Len(sc.drawings) : sc.drawings[i].id = id

DrawingById(sc, id) ==
  sc.drawings[CHOOSE i \in 1..Len(sc.drawings) :
                 /\ sc.drawings[i].id = id
                 /\ \A j \in 1..(i - 1) : sc.drawings[j].id # id]

TokenById(sc, id) ==
  sc.tokens[CHOOSE i \in 1..Len(sc.tokens) :
               /\ sc.tokens[i].id = id
               /\ \A j \in 1..(i - 1) : sc.tokens[j].id # id]

Shift(pts, dx, dy) == [i \in 1..Len(pts) |-> Pt(pts[i][1] + dx, pts[i][2] + dy)]

(***************************************************************************)
(* tools-draw: scene mutators handed to runtime.updateScene                *)
(***************************************************************************)
ReplacePoints(sc, id, kind, pts) ==
  [sc EXCEPT !.drawings =
     MapSeq(sc.drawings,
            LAMBDA d : IF d.id = id /\ d.kind = kind THEN [d EXCEPT !.pts = pts] ELSE d)]

\* The pieces a pen stroke is trimmed to: defined with the eraser below.
RECURSIVE EraseAll(_, _, _)

\* Mutate(sc, m): the scene the mutator m returns for scene sc.
Mutate(sc, m) ==
  CASE m.op = "moveToken" ->
         [sc EXCEPT !.tokens =
            MapSeq(sc.tokens,
                   LAMBDA t : IF t.id = m.id
                              THEN [t EXCEPT !.x = m.to[1], !.y = m.to[2]] ELSE t)]
    [] m.op = "setPoints" -> ReplacePoints(sc, m.id, m.kind, m.pts)
    [] m.op = "setLast" ->
         [sc EXCEPT !.drawings =
            MapSeq(sc.drawings,
                   LAMBDA d : IF d.id = m.id /\ d.kind = m.kind
                              THEN [d EXCEPT !.pts = [@ EXCEPT ![Len(@)] = m.to]]
                              ELSE d)]
    [] m.op = "setFirst" ->
         [sc EXCEPT !.drawings =
            MapSeq(sc.drawings,
                   LAMBDA d : IF d.id = m.id /\ d.kind = m.kind
                              THEN [d EXCEPT !.pts = [@ EXCEPT ![1] = m.to]]
                              ELSE d)]
    [] m.op = "append" ->
         [sc EXCEPT !.drawings =
            MapSeq(sc.drawings,
                   LAMBDA d : IF d.id = m.id /\ d.kind = m.kind
                              THEN [d EXCEPT !.pts = Append(@, m.to)] ELSE d)]
    [] m.op = "setSize" ->
         [sc EXCEPT !.drawings =
            MapSeq(sc.drawings,
                   LAMBDA d : IF d.id = m.id /\ d.kind = m.kind
                              THEN [d EXCEPT !.size = m.size] ELSE d)]
    [] m.op = "add" -> [sc EXCEPT !.drawings = Append(@, m.drawing)]
    [] m.op = "remove" ->
         [sc EXCEPT !.drawings = SelectSeq(@, LAMBDA d : d.id # m.id)]
    [] m.op = "erase" -> [sc EXCEPT !.drawings = EraseAll(@, m.at, 1)]
    [] m.op = "drop" ->
         IF \E i \in 1..Len(sc.tokens) : sc.tokens[i].id = m.id
         THEN LET first == CHOOSE i \in 1..Len(sc.tokens) :
                             /\ sc.tokens[i].id = m.id
                             /\ \A j \in 1..(i - 1) : sc.tokens[j].id # m.id
              IN  [sc EXCEPT !.tokens[first] = [@ EXCEPT !.x = m.to[1], !.y = m.to[2]]]
         ELSE [sc EXCEPT !.tokens = Append(@, Token(m.id, m.to[1], m.to[2]))]

\* What a tool's handlePointer leaves behind: its own state, the mutators it
\* handed to runtime.updateScene in call order, and two ghost labels for
\* `down` events: the id of the token or drawing the pointer took hold of and
\* whether the event put that drawing into the scene.
NoId == <<"none">>

Outcome(tool, muts, grabbed, created) ==
  [tool |-> tool, muts |-> muts, grabbed |-> grabbed, created |-> created,
   emits |-> <<>>]

\* runtime.emit: the outcome with the events handed to the registry's onEvent
Emit(out, events) == [out EXCEPT !.emits = @ \o events]

Idle(tool) == Outcome(tool, <<>>, NoId, FALSE)

(***************************************************************************)
(* tools-draw: SelectTool.  The scenes of the select tool hold circle      *)
(* tokens, lines and pen strokes.                                          *)
(***************************************************************************)
NoTarget == [type |-> "none"]

NoDrag == [mode |-> "none"]

SelectToolInit == [hovered |-> NoTarget, dragState |-> NoDrag, selected |-> NoTarget]

hitHandlesForLine(d, p) ==
  LET ends == getLineEndpoints(d.pts)
  IN  IF Within(ends.start, p, LINE_HANDLE_RADIUS)
      THEN [type |-> "drawing", id |-> d.id, handle |-> "start"]
      ELSE IF Within(ends.end, p, LINE_HANDLE_RADIUS)
      THEN [type |-> "drawing", id |-> d.id, handle |-> "end"]
      ELSE NoTarget

checkDrawing(d, p) ==
  IF d.kind = "line" /\ Len(d.pts) > 0 THEN hitHandlesForLine(d, p) ELSE NoTarget

\* hitDrawingHandles: the preferred (selected) drawing first, then every
\* drawing from the topmost down.
hitDrawingHandles(drawings, p, preferred) ==
  LET hits == {i \in 1..Len(drawings) : checkDrawing(drawings[i], p) # NoTarget}
      pref == {i \in 1..Len(drawings) :
                 /\ preferred.type = "drawing"
                 /\ drawings[i].id = preferred.id
                 /\ \A j \in (i + 1)..Len(drawings) : drawings[j].id # preferred.id}
  IN  IF pref \cap hits # {}
      THEN checkDrawing(drawings[CHOOSE i \in pref : TRUE], p)
      ELSE IF hits # {}
      THEN checkDrawing(drawings[CHOOSE i \in hits : \A j \in hits : j <= i], p)
      ELSE NoTarget

\* hitDeleteIcon returns undefined for every drawing and every point
hitDeleteIcon(d, p) == NoTarget

\* findToken: the closest token within tokenRadius, the first one on a tie.
findToken(tokens, p) ==
  LET at(i) == Pt(tokens[i].x, tokens[i].y)
      hits == {i \in 1..Len(tokens) : Within(at(i), p, TOKEN_HIT_RADIUS)}
  IN  IF hits = {} THEN NoTarget
      ELSE LET best == CHOOSE i \in hits :
                         \A j \in hits :
                           \/ DistSq(at(i), p) < DistSq(at(j), p)
                           \/ (DistSq(at(i), p) = DistSq(at(j), p) /\ i <= j)
           IN  [type |-> "token", id |-> tokens[best].id]

hitDrawings(drawings, p) ==
  LET hits == {i \in 1..Len(drawings) :
                 /\ drawings[i].kind \in {"line", "pen"}
                 /\ Len(drawings[i].pts) >= 2
                 /\ isPointNearLine(drawings[i].pts, p, drawings[i].size)}
  IN  IF hits = {} THEN NoTarget
      ELSE [type |-> "drawing",
            id |-> drawings[CHOOSE i \in hits : \A j \in hits : j <= i].id]

\* findHoverTarget: handles, then tokens, then drawing bodies
findHoverTarget(sc, p, selected) ==
  LET handleTarget == hitDrawingHandles(sc.drawings, p, selected)
      token == findToken(sc.tokens, p)
  IN  IF handleTarget # NoTarget THEN handleTarget
      ELSE IF token # NoTarget THEN token
      ELSE hitDrawings(sc.drawings, p)

\* pickTarget: the delete icon of the selected drawing, then what
\* findHoverTarget looks for, in the same order
pickTarget(sc, p, selected) ==
  LET iconTarget == IF selected.type = "drawing" /\ HasDrawing(sc, selected.id)
                    THEN hitDeleteIcon(DrawingById(sc, selected.id), p)
                    ELSE NoTarget
  IN  IF iconTarget # NoTarget THEN iconTarget
      ELSE findHoverTarget(sc, p, selected)

\* targets compared by type and id alone
isSameTargetByIdOnly(a, b) ==
  IF a = NoTarget /\ b = NoTarget THEN TRUE
  ELSE IF a = NoTarget \/ b = NoTarget THEN FALSE
  ELSE a.type = b.type /\ a.id = b.id

isSameTarget(a, b) ==
  LET part(t, field) == IF field \in DOMAIN t THEN t[field] ELSE "undefined"
  IN  IF a = NoTarget /\ b = NoTarget THEN TRUE
      ELSE IF a = NoTarget \/ b = NoTarget THEN FALSE
      ELSE IF a.type # b.type THEN FALSE
      ELSE IF a.id # b.id THEN FALSE
      ELSE IF a.type = "drawing" /\ b.type = "drawing"
      THEN part(a, "handle") = part(b, "handle") /\ part(a, "action") = part(b, "action")
      ELSE TRUE

SelectHandleHover(tool, sc, ev) ==
  LET target == findHoverTarget(sc, ev.point, tool.selected)
  IN  IF ~isSameTarget(target, tool.hovered)
      THEN Emit(Idle([tool EXCEPT !.hovered = target]),
                <<[kind |-> "hover", target |-> target]>>)
      ELSE Idle(tool)

\* what handleDown does with a target that is not the delete icon
SelectGrab(tool, sc, p, target) ==
  IF target = NoTarget
  THEN IF tool.selected # NoTarget
       THEN Emit(Idle([tool EXCEPT !.dragState = NoDrag, !.selected = NoTarget]),
                 <<[kind |-> "select", target |-> NoTarget]>>)
       ELSE Idle([tool EXCEPT !.dragState = NoDrag])
  ELSE IF target.type = "token"
  THEN LET token == TokenById(sc, target.id)
       IN  Emit(Outcome([tool EXCEPT
                           !.dragState = [mode |-> "token", id |-> target.id,
                                          offset |-> Pt(p[1] - token.x, p[2] - token.y)],
                           !.selected = target],
                        <<>>, target.id, FALSE),
                <<[kind |-> "select", target |-> target]>>)
  ELSE LET drawing == DrawingById(sc, target.id)
           base == [type |-> "drawing", id |-> target.id]
           drag == IF "handle" \in DOMAIN target /\ drawing.kind = "line"
                   THEN [mode |-> "line-handle", id |-> target.id,
                         handle |-> target.handle]
                   ELSE IF drawing.kind = "line"
                   THEN [mode |-> "line", id |-> target.id, startPointer |-> p,
                         startPoints |-> drawing.pts]
                   ELSE NoDrag
       IN  Emit(Outcome([tool EXCEPT !.dragState = drag, !.selected = base],
                        <<>>, target.id, FALSE),
                <<[kind |-> "select", target |-> base]>>)

SelectHandleDown(tool, sc, ev) ==
  LET target == pickTarget(sc, ev.point, tool.selected)
  IN  IF target # NoTarget /\ target.type = "drawing" /\ "action" \in DOMAIN target
      THEN Emit(Outcome([tool EXCEPT !.dragState = NoDrag, !.selected = NoTarget],
                        <<[op |-> "remove", id |-> target.id]>>, NoId, FALSE),
                <<[kind |-> "select", target |-> NoTarget]>>)
      ELSE SelectGrab(tool, sc, ev.point, target)

\* a drag that puts the token under the pointer, whatever the grab offset
SelectHandleDragToPointer(tool, ev) ==
  LET state == tool.dragState
      p == ev.point
  IN  CASE state.mode = "none" -> Idle(tool)
        [] state.mode = "token" ->
             Emit(Outcome(tool,
                          <<[op |-> "moveToken", id |-> state.id,
                             to |-> p]>>,
                          NoId, FALSE),
                  <<[kind |-> "drag", target |-> [type |-> "token", id |-> state.id]]>>)
        [] state.mode = "line-handle" ->
             Emit(Outcome(tool,
                          <<[op |-> IF state.handle = "start" THEN "setFirst"
                                    ELSE "setLast",
                             id |-> state.id, kind |-> "line", to |-> p]>>,
                          NoId, FALSE),
                  <<[kind |-> "drag",
                     target |-> [type |-> "drawing", id |-> state.id,
                                 handle |-> state.handle]]>>)
        [] state.mode = "line" ->
             Emit(Outcome(tool,
                          <<[op |-> "setPoints", id |-> state.id, kind |-> "line",
                             pts |-> Shift(state.startPoints,
                                           p[1] - state.startPointer[1],
                                           p[2] - state.startPointer[2])]>>,
                          NoId, FALSE),
                  <<[kind |-> "drag", target |-> [type |-> "drawing", id |-> state.id]]>>)

SelectHandleDrag(tool, ev) ==
  LET state == tool.dragState
      p == ev.point
  IN  CASE state.mode = "none" -> Idle(tool)
        [] state.mode = "token" ->
             Emit(Outcome(tool,
                          <<[op |-> "moveToken", id |-> state.id,
                             to |-> Pt(p[1] - state.offset[1], p[2] - state.offset[2])]>>,
                          NoId, FALSE),
                  <<[kind |-> "drag", target |-> [type |-> "token", id |-> state.id]]>>)
        [] state.mode = "line-handle" ->
             Emit(Outcome(tool,
                          <<[op |-> IF state.handle = "start" THEN "setFirst"
                                    ELSE "setLast",
                             id |-> state.id, kind |-> "line", to |-> p]>>,
                          NoId, FALSE),
                  <<[kind |-> "drag",
                     target |-> [type |-> "drawing", id |-> state.id,
                                 handle |-> state.handle]]>>)
        [] state.mode = "line" ->
             Emit(Outcome(tool,
                          <<[op |-> "setPoints", id |-> state.id, kind |-> "line",
                             pts |-> Shift(state.startPoints,
                                           p[1] - state.startPointer[1],
                                           p[2] - state.startPointer[2])]>>,
                          NoId, FALSE),
                  <<[kind |-> "drag", target |-> [type |-> "drawing", id |-> state.id]]>>)

SelectHandleUp(tool) ==
  IF tool.dragState = NoDrag THEN Idle(tool)
  ELSE Emit(Idle([tool EXCEPT !.dragState = NoDrag]),
            <<[kind |-> "release",
               target |-> [type |-> IF tool.dragState.mode = "token" THEN "token"
                                    ELSE "drawing",
                           id |-> tool.dragState.id]]>>)

\* SelectTool.handlePointer
SelectHandlePointer(tool, sc, ev) ==
  IF ev.type = "move" /\ ev.buttons = 0 THEN SelectHandleHover(tool, sc, ev)
  ELSE IF ev.type = "down" THEN SelectHandleDown(tool, sc, ev)
  ELSE IF ev.type = "move" THEN SelectHandleDrag(tool, ev)
  ELSE SelectHandleUp(tool)

(***************************************************************************)
(* tools-draw: LineTool                                                    *)
(***************************************************************************)
Pointers == {1, 2}

NoSession == [mode |-> "none"]

NoPoint == <<"none">>

\* createDrawingId: kind, pointer id and a stamp standing for Date.now() and
\* Math.floor(Math.random() * 1000) at the moment of the call.
createDrawingId(kind, pointerId, stamp) == <<kind, pointerId, stamp>>

LineToolInit == [sessions |-> [p \in Pointers |-> NoSession], selectedId |-> NoId]

LineModeAt(d, p) ==
  LET ends == getLineEndpoints(d.pts)
  IN  IF Within(ends.start, p, LINE_HANDLE_RADIUS) THEN "edit-start"
      ELSE IF Within(ends.end, p, LINE_HANDLE_RADIUS) THEN "edit-end"
      ELSE IF isPointNearLine(d.pts, p, d.size) THEN "edit-move"
      ELSE "none"

\* findEditableTarget: only the selected line can be edited
findEditableTarget(tool, sc, p) ==
  LET ids == {i \in 1..Len(sc.drawings) :
                /\ sc.drawings[i].id = tool.selectedId
                /\ sc.drawings[i].kind = "line"}
  IN  IF tool.selectedId = NoId \/ ids = {} THEN NoSession
      ELSE LET d == sc.drawings[CHOOSE i \in ids : \A j \in ids : i <= j]
           IN  IF LineModeAt(d, p) = "none" THEN NoSession
               ELSE [mode |-> LineModeAt(d, p), drawingId |-> d.id,
                     anchor |-> p, originalPoints |-> d.pts]

findLineAtPoint(drawings, p) ==
  LET hits == {i \in 1..Len(drawings) :
                 drawings[i].kind = "line" /\ LineModeAt(drawings[i], p) # "none"}
  IN  IF hits = {} THEN NoId
      ELSE drawings[CHOOSE i \in hits : \A j \in hits : j <= i].id

\* updateActiveLine: the mutator of one session update
updateActiveLine(session, p) ==
  CASE session.mode = "create" ->
         [op |-> "setLast", id |-> session.drawingId, kind |-> "line", to |-> p]
    [] session.mode = "edit-start" ->
         [op |-> "setPoints", id |-> session.drawingId, kind |-> "line",
          pts |-> [session.originalPoints EXCEPT ![1] = p]]
    [] session.mode = "edit-end" ->
         [op |-> "setPoints", id |-> session.drawingId, kind |-> "line",
          pts |-> [session.originalPoints EXCEPT ![Len(session.originalPoints)] = p]]
    [] session.mode = "edit-move" ->
         [op |-> "setPoints", id |-> session.drawingId, kind |-> "line",
          pts |-> Shift(session.originalPoints,
                        p[1] - session.anchor[1], p[2] - session.anchor[2])]

removeLine(id) == [op |-> "remove", id |-> id]

\* finishInteraction, followed by sessions.delete(pointerId)
finishInteraction(tool, session, ev) ==
  LET cleared == [tool EXCEPT !.sessions[ev.pointerId] = NoSession]
      update == updateActiveLine(session, ev.point)
  IN  IF session.mode = "create"
      THEN IF ev.type = "cancel" \/ Below(session.anchor, ev.point, 35)
           THEN Outcome([cleared EXCEPT !.selectedId =
                           IF @ = session.drawingId THEN NoId ELSE @],
                        <<update, removeLine(session.drawingId)>>, NoId, FALSE)
           ELSE Outcome([cleared EXCEPT !.selectedId = session.drawingId],
                        <<update>>, NoId, FALSE)
      ELSE IF ev.type = "cancel"
      THEN Outcome(cleared,
                   <<[op |-> "setPoints", id |-> session.drawingId, kind |-> "line",
                      pts |-> session.originalPoints]>>, NoId, FALSE)
      ELSE Outcome(cleared, <<update>>, NoId, FALSE)

LineHandleDown(tool, sc, ev) ==
  LET p == ev.point
      editable == findEditableTarget(tool, sc, p)
      candidate == findLineAtPoint(sc.drawings, p)
      drawingId == createDrawingId("line", ev.pointerId, ev.stamp)
  IN  IF editable # NoSession
      THEN Outcome([tool EXCEPT !.sessions[ev.pointerId] = editable,
                                !.selectedId = editable.drawingId],
                   <<>>, editable.drawingId, FALSE)
      ELSE IF candidate # NoId
      THEN Outcome([tool EXCEPT !.selectedId = candidate], <<>>, NoId, FALSE)
      ELSE Outcome([tool EXCEPT !.sessions[ev.pointerId] =
                      [mode |-> "create", drawingId |-> drawingId, anchor |-> p,
                       originalPoints |-> <<p, p>>]],
                   <<[op |-> "add",
                      drawing |-> Drawing(drawingId, "line", <<p, p>>, LineWidth)]>>,
                   drawingId, TRUE)

\* LineTool.handlePointer
LineHandlePointer(tool, sc, ev) ==
  LET session == tool.sessions[ev.pointerId]
  IN  IF ev.type = "move" /\ ev.buttons = 0 THEN Idle(tool)
      ELSE IF ev.type = "down" THEN LineHandleDown(tool, sc, ev)
      ELSE IF session = NoSession THEN Idle(tool)
      ELSE IF ev.type = "move"
      THEN Outcome(tool, <<updateActiveLine(session, ev.point)>>, NoId, FALSE)
      ELSE finishInteraction(tool, session, ev)

(***************************************************************************)
(* tools-draw: PenTool                                                     *)
(***************************************************************************)
PenToolInit ==
  [activeStrokeIds |-> [p \in Pointers |-> NoId], lastPoint |-> [p \in Pointers |-> NoPoint]]

\* minDistance = 0.35 * VISUAL_SCALE, in hundredths
PenMinDistance == (35 * VISUAL_SCALE) \div 10

\* a pen that lets a rejected sample become the next reference point
PenHandlePointerMovingReference(tool, sc, ev) ==
  LET pid == ev.pointerId
      drawingId == createDrawingId("pen", pid, ev.stamp)
      active == tool.activeStrokeIds[pid]
      last == tool.lastPoint[pid]
  IN  IF ev.type = "down"
      THEN Outcome([tool EXCEPT !.activeStrokeIds[pid] = drawingId,
                                !.lastPoint[pid] = ev.point],
                   <<[op |-> "add",
                      drawing |-> Drawing(drawingId, "pen", <<ev.point>>, PenWidth)]>>,
                   drawingId, TRUE)
      ELSE IF ev.type = "move" /\ ev.buttons > 0
      THEN IF active = NoId THEN Idle(tool)
           ELSE IF last # NoPoint /\ Below(ev.point, last, PenMinDistance)
           THEN Idle([tool EXCEPT !.lastPoint[pid] = ev.point])
           ELSE Outcome([tool EXCEPT !.lastPoint[pid] = ev.point],
                        <<[op |-> "append", id |-> active, kind |-> "pen",
                           to |-> ev.point]>>, NoId, FALSE)
      ELSE IF ev.type \in {"up", "cancel"}
      THEN Idle([tool EXCEPT !.activeStrokeIds[pid] = NoId, !.lastPoint[pid] = NoPoint])
      ELSE Idle(tool)

\* PenTool.handlePointer
PenHandlePointer(tool, sc, ev) ==
  LET pid == ev.pointerId
      drawingId == createDrawingId("pen", pid, ev.stamp)
      active == tool.activeStrokeIds[pid]
      last == tool.lastPoint[pid]
  IN  IF ev.type = "down"
      THEN Outcome([tool EXCEPT !.activeStrokeIds[pid] = drawingId,
                                !.lastPoint[pid] = ev.point],
                   <<[op |-> "add",
                      drawing |-> Drawing(drawingId, "pen", <<ev.point>>, PenWidth)]>>,
                   drawingId, TRUE)
      ELSE IF ev.type = "move" /\ ev.buttons > 0
      THEN IF active = NoId THEN Idle(tool)
           ELSE IF last # NoPoint /\ Below(ev.point, last, PenMinDistance) THEN Idle(tool)
           ELSE Outcome([tool EXCEPT !.lastPoint[pid] = ev.point],
                        <<[op |-> "append", id |-> active, kind |-> "pen",
                           to |-> ev.point]>>, NoId, FALSE)
      ELSE IF ev.type \in {"up", "cancel"}
      THEN Idle([tool EXCEPT !.activeStrokeIds[pid] = NoId, !.lastPoint[pid] = NoPoint])
      ELSE Idle(tool)

(***************************************************************************)
(* tools-draw: ArrowTool                                                   *)
(***************************************************************************)
NoArrowState == [mode |-> "none"]

ArrowToolInit == [active |-> [p \in Pointers |-> NoArrowState], selectedId |-> NoId]

ArrowStateAt(d, p) ==
  IF Within(p, d.pts[2], (d.size * 5) \div 2)
  THEN [mode |-> "edit-to", drawingId |-> d.id]
  ELSE IF Within(p, d.pts[1], (d.size * 5) \div 2)
  THEN [mode |-> "edit-from", drawingId |-> d.id]
  ELSE IF SegmentWithin(p, d.pts[1], d.pts[2], (d.size * 3) \div 2)
  THEN [mode |-> "edit-move", drawingId |-> d.id, startPointer |-> p,
        startFrom |-> d.pts[1], startTo |-> d.pts[2]]
  ELSE NoArrowState

\* hitTestArrow: the topmost arrow under the point, among the arrows with id
\* restrictToId when one is given
hitTestArrow(drawings, p, restrictToId) ==
  LET hits == {i \in 1..Len(drawings) :
                 /\ drawings[i].kind = "arrow"
                 /\ (restrictToId # NoId => drawings[i].id = restrictToId)
                 /\ ArrowStateAt(drawings[i], p) # NoArrowState}
  IN  IF hits = {} THEN NoArrowState
      ELSE ArrowStateAt(drawings[CHOOSE i \in hits : \A j \in hits : j <= i], p)

ArrowHandleDown(tool, sc, ev) ==
  LET p == ev.point
      editable == hitTestArrow(sc.drawings, p, tool.selectedId)
      candidate == hitTestArrow(sc.drawings, p, NoId)
      drawingId == createDrawingId("arrow", ev.pointerId, ev.stamp)
  IN  IF editable # NoArrowState
      THEN Outcome([tool EXCEPT !.active[ev.pointerId] = editable,
                                !.selectedId = editable.drawingId],
                   <<>>, editable.drawingId, FALSE)
      ELSE IF candidate # NoArrowState
      THEN Outcome([tool EXCEPT !.selectedId = candidate.drawingId], <<>>, NoId, FALSE)
      ELSE Outcome([tool EXCEPT !.active[ev.pointerId] =
                      [mode |-> "create", drawingId |-> drawingId, anchor |-> p]],
                   <<[op |-> "add",
                      drawing |-> Drawing(drawingId, "arrow", <<p, p>>, ArrowWidth)]>>,
                   drawingId, TRUE)

ArrowHandleMove(tool, ev) ==
  LET state == tool.active[ev.pointerId]
      p == ev.point
  IN  CASE state.mode = "none" -> Idle(tool)
        [] state.mode \in {"create", "edit-to"} ->
             Outcome(tool, <<[op |-> "setLast", id |-> state.drawingId,
                              kind |-> "arrow", to |-> p]>>, NoId, FALSE)
        [] state.mode = "edit-from" ->
             Outcome(tool, <<[op |-> "setFirst", id |-> state.drawingId,
                              kind |-> "arrow", to |-> p]>>, NoId, FALSE)
        [] state.mode = "edit-move" ->
             Outcome(tool,
                     <<[op |-> "setPoints", id |-> state.drawingId, kind |-> "arrow",
                        pts |-> Shift(<<state.startFrom, state.startTo>>,
                                      p[1] - state.startPointer[1],
                                      p[2] - state.startPointer[2])]>>,
                     NoId, FALSE)

\* ArrowTool.handlePointer
ArrowHandlePointer(tool, sc, ev) ==
  LET state == tool.active[ev.pointerId]
  IN  IF ev.type = "move" /\ ev.buttons = 0 THEN Idle(tool)
      ELSE IF ev.type = "down" THEN ArrowHandleDown(tool, sc, ev)
      ELSE IF ev.type = "move" THEN ArrowHandleMove(tool, ev)
      ELSE Idle([tool EXCEPT !.active[ev.pointerId] = NoArrowState,
                             !.selectedId = IF state # NoArrowState /\ ev.type # "cancel"
                                            THEN state.drawingId ELSE @])

(***************************************************************************)
(* tools-draw: ConeTool                                                    *)
(***************************************************************************)
NoConeState == [mode |-> "none"]

ConeToolInit == [active |-> [p \in Pointers |-> NoConeState]]

ConeStateAt(d, p) ==
  IF DistSq(d.pts[1], p) * 10000 <= 36 * d.size
  THEN [mode |-> "move", drawingId |-> d.id,
        pointerOffset |-> Pt(p[1] - d.pts[1][1], p[2] - d.pts[1][2])]
  ELSE IF DistSq(d.pts[1], p) * 10000 <= 144 * d.size
  THEN [mode |-> "resize", drawingId |-> d.id, origin |-> d.pts[1]]
  ELSE NoConeState

hitTestCone(drawings, p) ==
  LET hits == {i \in 1..Len(drawings) :
                 drawings[i].kind = "cone" /\ ConeStateAt(drawings[i], p) # NoConeState}
  IN  IF hits = {} THEN NoConeState
      ELSE ConeStateAt(drawings[CHOOSE i \in hits : \A j \in hits : j <= i], p)

ConeHandleDown(tool, sc, ev) ==
  LET existing == hitTestCone(sc.drawings, ev.point)
      drawingId == createDrawingId("cone", ev.pointerId, ev.stamp)
  IN  IF existing # NoConeState
      THEN Outcome([tool EXCEPT !.active[ev.pointerId] = existing],
                   <<>>, existing.drawingId, FALSE)
      ELSE Outcome([tool EXCEPT !.active[ev.pointerId] =
                      [mode |-> "create", drawingId |-> drawingId, origin |-> ev.point]],
                   <<[op |-> "add",
                      drawing |-> Drawing(drawingId, "cone", <<ev.point>>, ConeRadiusSq)]>>,
                   drawingId, TRUE)

ConeHandleMove(tool, ev) ==
  LET state == tool.active[ev.pointerId]
      p == ev.point
  IN  CASE state.mode = "none" -> Idle(tool)
        [] state.mode = "move" ->
             Outcome(tool,
                     <<[op |-> "setPoints", id |-> state.drawingId, kind |-> "cone",
                        pts |-> <<Pt(p[1] - state.pointerOffset[1],
                                     p[2] - state.pointerOffset[2])>>]>>,
                     NoId, FALSE)
        [] state.mode \in {"create", "resize"} ->
             Outcome(tool,
                     <<[op |-> "setSize", id |-> state.drawingId, kind |-> "cone",
                        size |-> Max(MinConeRadiusSq, DistSq(p, state.origin) * 100)]>>,
                     NoId, FALSE)

\* ConeTool.handlePointer
ConeHandlePointer(tool, sc, ev) ==
  IF ev.type = "down" THEN ConeHandleDown(tool, sc, ev)
  ELSE IF ev.type = "move" /\ ev.buttons > 0 THEN ConeHandleMove(tool, ev)
  ELSE IF ev.type \in {"up", "cancel"}
  THEN Idle([tool EXCEPT !.active[ev.pointerId] = NoConeState])
  ELSE Idle(tool)

(***************************************************************************)
(* tools-draw: EraserTool.  The tool keeps no state between events.        *)
(***************************************************************************)
EraserToolInit == [radius |-> EraserRadius]

\* The point where the segment start-end crosses the circle: `which` is 1 for
\* the root t1 and 2 for the root t2 of segmentCircleIntersections.  The
\* point is kept as a term; its coordinates are irrational in general.
CutPoint(start, end, center, r, which) == <<"cut", start, end, center, r, which>>

\* clipSegmentOutsideCircle: the parts of the segment outside the circle
clipSegmentOutsideCircle(start, end, center, r) ==
  LET startIn == Within(start, center, r)
      endIn == Within(end, center, r)
  IN  IF start = end THEN <<>>
      ELSE IF startIn /\ endIn THEN <<>>
      ELSE IF ~SegmentWithin(center, start, end, r)
      THEN <<[from |-> start, to |-> end]>>
      ELSE IF endIn
      THEN <<[from |-> start, to |-> CutPoint(start, end, center, r, 1)]>>
      ELSE IF startIn
      THEN <<[from |-> CutPoint(start, end, center, r, 2), to |-> end]>>
      ELSE <<[from |-> start, to |-> CutPoint(start, end, center, r, 1)],
             [from |-> CutPoint(start, end, center, r, 2), to |-> end]>>

addPoint(current, point) ==
  IF current = <<>> \/ current[Len(current)] # point THEN Append(current, point)
  ELSE current

pushCurrent(current, result) ==
  IF Len(current) > 1 THEN Append(result, current) ELSE result

RECURSIVE ClipFrom(_, _, _, _, _, _)
ClipFrom(points, center, r, index, current, result) ==
  IF index >= Len(points) THEN pushCurrent(current, result)
  ELSE LET segments == clipSegmentOutsideCircle(points[index], points[index + 1],
                                                center, r)
           first == addPoint(addPoint(current, segments[1].from), segments[1].to)
       IN  IF segments = <<>>
           THEN ClipFrom(points, center, r, index + 1, <<>>,
                         pushCurrent(current, result))
           ELSE IF Len(segments) = 1
           THEN ClipFrom(points, center, r, index + 1, first, result)
           ELSE ClipFrom(points, center, r, index + 1,
                         <<segments[2].from, segments[2].to>>,
                         pushCurrent(first, result))

clipPolylineByCircle(points, center, r) ==
  IF Len(points) < 2 THEN <<>> ELSE ClipFrom(points, center, r, 1, <<>>, <<>>)

\* trimPenDrawing: the stroke itself when nothing was cut away, otherwise
\* one new stroke per remaining piece
trimPenDrawing(d, at, radius) ==
  LET segments == clipPolylineByCircle(d.pts, at, radius + d.size \div 2)
  IN  IF segments = <<>> THEN <<>>
      ELSE IF Len(segments) = 1 /\ segments[1] = d.pts THEN <<d>>
      ELSE [index \in 1..Len(segments) |->
              [d EXCEPT !.id = <<"split", d.id, index - 1>>, !.pts = segments[index]]]

eraseDrawing(d, at) ==
  IF d.kind = "pen" THEN trimPenDrawing(d, at, EraserRadius) ELSE <<d>>

\* the drawings eraseAtPoint leaves, from drawing i on
EraseAll(drawings, at, i) ==
  IF i > Len(drawings) THEN <<>>
  ELSE eraseDrawing(drawings[i], at) \o EraseAll(drawings, at, i + 1)

\* EraserTool.handlePointer: erases on `down` and on every `move` that reports
\* a button.  Whether `erase` is emitted is known once the mutator has run:
\* it sets `changed` when it drops or replaces a drawing.
EraserHandlePointer(tool, sc, ev) ==
  IF ev.type = "down" \/ (ev.type = "move" /\ ev.buttons > 0)
  THEN Emit(Outcome(tool, <<[op |-> "erase", at |-> ev.point]>>, NoId, FALSE),
            <<[kind |-> "erase", ifChanged |-> TRUE]>>)
  ELSE Idle(tool)

(***************************************************************************)
(* tools-draw: DrawToolRegistry                                            *)
(***************************************************************************)
\* createDefaultTools
Tools == {"select", "line", "pen", "arrow", "cone", "eraser"}

\* DrawToolRegistry.handlePointer: the active tool handles the event; its
\* runtime reads the registry's scene.
RegistryHandlePointer(toolId, tools, sc, ev) ==
  CASE toolId = "select" -> SelectHandlePointer(tools.select, sc, ev)
    [] toolId = "line" -> LineHandlePointer(tools.line, sc, ev)
    [] toolId = "pen" -> PenHandlePointer(tools.pen, sc, ev)
    [] toolId = "arrow" -> ArrowHandlePointer(tools.arrow, sc, ev)
    [] toolId = "cone" -> ConeHandlePointer(tools.cone, sc, ev)
    [] toolId = "eraser" -> EraserHandlePointer(tools.eraser, sc, ev)
    [] OTHER -> Idle(<<>>)   \* no tool under the active id, or one without handlePointer

(***************************************************************************)
(* The hosts: scene and undo/redo history.                                 *)
(*                                                                         *)
(* Two hosts own a DrawToolRegistry: the one with history batches          *)
(* ("batching") and the tactics app ("legacy").  Their operations work on  *)
(* a record of the host's fields; `sets` lists the scenes the call handed  *)
(* to engine.setScene.  Left out: lastUpdatedAt, persistence, the signals  *)
(* that only drive the user interface (depths, hover, selection, cursor,   *)
(* eraser preview).                                                        *)
(***************************************************************************)
HISTORY_CAPACITY == 30

\* trimHistory(stack): splice away the oldest entries above the capacity
trimHistoryNever(stack) == stack

trimHistory(stack) ==
  IF Len(stack) > HISTORY_CAPACITY
  THEN SubSeq(stack, Len(stack) - HISTORY_CAPACITY + 1, Len(stack))
  ELSE stack

\* pushUndo(snapshot, {resetRedo}); the legacy host always resets the redo stack
pushUndo(h, snapshot, resetRedo) ==
  [h EXCEPT !.undo = trimHistory(Append(@, snapshot)),
            !.redo = IF resetRedo THEN <<>> ELSE @]

recordHistorySnapshot(h, snapshot) ==
  IF h.batch
  THEN [h EXCEPT !.pending = IF @ = <<>> THEN <<snapshot>> ELSE @, !.dirty = TRUE]
  ELSE pushUndo(h, snapshot, TRUE)

commitHistoryBatch(h) ==
  IF ~h.batch THEN h
  ELSE LET closed == [h EXCEPT !.batch = FALSE, !.pending = <<>>, !.dirty = FALSE]
       IN  IF h.dirty /\ h.pending # <<>>
           THEN pushUndo(closed, h.pending[1], TRUE)
           ELSE closed

beginHistoryBatch(h) ==
  [commitHistoryBatch(h) EXCEPT !.batch = TRUE, !.pending = <<>>, !.dirty = FALSE]

\* { ...next, scene: { ...next.scene, lastUpdatedAt: nowISO() } }.  The scenes
\* of the runs that do not follow the clock leave lastUpdatedAt out.
withTimestamp(next, now) ==
  IF "lastUpdatedAt" \in DOMAIN next THEN [next EXCEPT !.lastUpdatedAt = now] ELSE next

\* applySceneUpdate of the batching host
applySceneUpdate(h, m) ==
  LET recorded == recordHistorySnapshot(h, h.scene)
      next == withTimestamp(Mutate(h.scene, m), h.now)
  IN  [recorded EXCEPT !.scene = next, !.sets = Append(@, next)]

\* applySceneUpdate of the legacy host: every update pushes the scene before it
applySceneUpdateLegacy(h, m) ==
  [pushUndo(h, h.scene, TRUE) EXCEPT !.scene = withTimestamp(Mutate(h.scene, m), h.now)]

\* undo() of the batching host
undo(h) ==
  LET c == commitHistoryBatch(h)
  IN  IF c.undo = <<>> THEN c
      ELSE [c EXCEPT !.undo = SubSeq(@, 1, Len(@) - 1),
                     !.redo = trimHistory(Append(@, c.scene)),
                     !.scene = c.undo[Len(c.undo)]]

\* redo() of the batching host
redo(h) ==
  LET c == commitHistoryBatch(h)
      popped == [c EXCEPT !.redo = SubSeq(@, 1, Len(@) - 1)]
  IN  IF c.redo = <<>> THEN c
      ELSE [pushUndo(popped, c.scene, FALSE) EXCEPT !.scene = c.redo[Len(c.redo)]]

\* undo() of the legacy host
undoLegacy(h) ==
  IF h.undo = <<>> THEN h
  ELSE [h EXCEPT !.undo = SubSeq(@, 1, Len(@) - 1),
                 !.redo = trimHistory(Append(@, h.scene)),
                 !.scene = h.undo[Len(h.undo)]]

\* redo() of the legacy host: pushUndo(current) empties what is left of the
\* redo stack
redoLegacy(h) ==
  LET popped == [h EXCEPT !.redo = SubSeq(@, 1, Len(@) - 1)]
  IN  IF h.redo = <<>> THEN h
      ELSE [pushUndo(popped, h.scene, TRUE) EXCEPT !.scene = h.redo[Len(h.redo)]]

\* runtime.updateScene for each mutator of a handler, in call order
RECURSIVE ApplyAll(_, _, _, _)
ApplyAll(kind, h, muts, i) ==
  IF i > Len(muts) THEN h
  ELSE ApplyAll(kind,
                IF kind = "batching" THEN applySceneUpdate(h, muts[i])
                ELSE applySceneUpdateLegacy(h, muts[i]),
                muts, i + 1)

\* handlePointer of the host around the registry's handlePointer
HostHandlePointer(kind, h, toolId, tools, ev) ==
  LET begun == IF kind = "batching" /\ ev.type = "down" THEN beginHistoryBatch(h) ELSE h
      out == RegistryHandlePointer(toolId, tools, h.scene, ev)
      applied == ApplyAll(kind, begun, out.muts, 1)
      ended == IF kind = "batching" /\ ev.type \in {"up", "cancel"}
               THEN commitHistoryBatch(applied) ELSE applied
  IN  [host |-> ended, out |-> out]

\* The events that reached onEvent: the eraser emits `erase` when its mutator
\* found `changed` set, which is when it dropped or replaced a drawing.
Emitted(emits, changed) ==
  MapSeq(SelectSeq(emits, LAMBDA e : "ifChanged" \in DOMAIN e => changed),
         LAMBDA e : IF "ifChanged" \in DOMAIN e THEN [kind |-> e.kind] ELSE e)

(***************************************************************************)
(* Host state                                                              *)
(***************************************************************************)
VARIABLES
  hostKind,                \* which host owns the registry: "batching" or "legacy"
  sceneSnapshot,           \* App.sceneSnapshot
  undoStack,               \* history.undo / App.undoStack
  redoStack,               \* history.redo / App.redoStack
  isHistoryBatchActive,    \* App.isHistoryBatchActive (batching host)
  pendingHistorySnapshot,  \* App.pendingHistorySnapshot: <<>> = null
  pendingHistoryDirty,     \* App.pendingHistoryDirty
  registryScene,           \* DrawToolRegistry.scene
  activeToolId,            \* DrawToolRegistry.activeToolId
  registryTools,           \* DrawToolRegistry.tools, in the order of the map
  calls,                   \* ghost: the hooks the last setActiveTool called, in call order
  toolSettings,            \* what configure sets: tokenRadius, stroke/color, width, radius
  configured,              \* ghost: how many times configureTool was called
  evaluated,               \* ghost: the last direct call of a core-geometry function
  selectTool,              \* SelectTool: hovered, dragState, selected
  lineTool,                \* LineTool: sessions, selectedId
  penTool,                 \* PenTool: activeStrokeIds, lastPoint
  arrowTool,               \* ArrowTool: active, selectedId
  coneTool,                \* ConeTool: active
  ptr,                     \* ghost, per pointer: is it down, and what its `down` took hold of
  gesture,                 \* ghost: the gesture that began with no other pointer down
  edits,                   \* ghost: events that updated the scene so far
  emitted,                 \* what the tool handed to runtime.emit in the last pointer event
  lastEvent,               \* ghost: the last event that changed anything
  historyPhase,            \* ghost of the history runs: "edits", "undos" or "after"
  \* ---- the scene deck of the batching host ----
  activeSceneId,           \* App.activeSceneId
  sceneDeck,               \* App.sceneDeck: the entries of the scenes that are not active
  sceneHistories,          \* App.sceneHistories: the histories of the scenes that are not active
  \* ---- ToastService (ui-angular) ----
  toastQueue,              \* ToastService.queue
  toastTimer,              \* ToastService.timer with the timeout it stands for (NoTimer = null)
  activeTimerToastId,      \* ToastService.activeTimerToastId (NoToastId = null)
  toastSequence,           \* toastSequence of the module
  toastLog                 \* ghost: the last call of the service and the toasts it removed

\* The entry of the active scene follows sceneSnapshot (syncSceneDeckEffect),
\* and its history is <<undoStack, redoStack>>.
deckVars == <<activeSceneId, sceneDeck, sceneHistories>>

toolVars == <<hostKind, sceneSnapshot, undoStack, redoStack, isHistoryBatchActive,
              pendingHistorySnapshot, pendingHistoryDirty, registryScene, activeToolId,
              registryTools, calls, toolSettings, configured, evaluated,
              selectTool, lineTool, penTool, arrowTool, coneTool, ptr, gesture, edits,
              emitted, lastEvent, historyPhase, deckVars>>

toastVars == <<toastQueue, toastTimer, activeTimerToastId, toastSequence, toastLog>>

\* everything an operation of the engine's transform, scene and renderers leaves alone
hostVars == <<toolVars, pointerHandlers, dispatched, toastVars>>

vars == <<engineVars, hostVars>>

(***************************************************************************)
(* ToastService (ui-angular)                                               *)
(*                                                                         *)
(* Time is counted in steps of TickMs.  A timer is the pending setTimeout: *)
(* the toast its callback closes over, its delay, and the time elapsed     *)
(* since setTimeout; the callback runs when the delay has elapsed.         *)
(***************************************************************************)
NoToastId == <<"null", 0>>

NoTimer == [id |-> NoToastId, durationMs |-> 0, elapsed |-> 0]

TickMs == 1000

DefaultDurationMs == 3000

\* nextToastId(): `toast-${Date.now()}-${toastSequence++}`, told apart by the
\* sequence number
nextToastId(seq) == <<"toast", seq>>

\* toToast(options).  uid (the number of the show() call), paused and resumed
\* are ghost fields: paused says that pauseTimer(id) was called for the toast
\* while it was the head and resumeTimer has not been called for it since;
\* resumed says where the last resumeTimer(id) since then found the toast
\* ("never", "head" or "queued").
toToast(options, seq, uid) ==
  [id |-> IF options.hasId THEN options.id ELSE nextToastId(seq),
   durationMs |-> IF options.hasDuration THEN options.durationMs
                  ELSE IF options.actions THEN 0 ELSE DefaultDurationMs,
   actions |-> options.actions,
   explicit |-> options.hasDuration,
   uid |-> uid,
   paused |-> FALSE,
   resumed |-> "never"]

ToastState ==
  [queue |-> toastQueue, timer |-> toastTimer, active |-> activeTimerToastId]

\* stopTimer()
stopTimer(st) == [st EXCEPT !.timer = NoTimer]

\* startTimer(toast)
startTimer(st, toast) ==
  IF toast.durationMs <= 0
  THEN stopTimer([st EXCEPT !.active = toast.id])
  ELSE [stopTimer(st) EXCEPT
          !.active = toast.id,
          !.timer = [id |-> toast.id, durationMs |-> toast.durationMs, elapsed |-> 0]]

\* queue.findIndex((toast) => toast.id === id), 0 for -1
findIndex(queue, id) ==
  IF \E i \in 1..Len(queue) : queue[i].id = id
  THEN CHOOSE i \in 1..Len(queue) :
         /\ queue[i].id = id
         /\ \A j \in 1..(i - 1) : queue[j].id # id
  ELSE 0

\* nextQueue.splice(index, 1)
Splice(queue, index) ==
  [i \in 1..(Len(queue) - 1) |-> IF i < index THEN queue[i] ELSE queue[i + 1]]

\* show(options) that starts the timer of every toast it appends
showStartingAlways(st, toast) ==
  startTimer([st EXCEPT !.queue = Append(st.queue, toast)], toast)

\* show(options), after toToast
show(st, toast) ==
  LET appended == [st EXCEPT !.queue = Append(st.queue, toast)]
  IN  IF Len(appended.queue) = 1 THEN startTimer(appended, toast) ELSE appended

\* dismissById(id)
dismissById(st, id) ==
  LET index == findIndex(st.queue, id)
      removed == [st EXCEPT !.queue = Splice(st.queue, index)]
  IN  IF index = 0 THEN st
      ELSE IF st.active = id
      THEN IF removed.queue # <<>>
           THEN startTimer(stopTimer(removed), Head(removed.queue))
           ELSE stopTimer(removed)
      ELSE removed

\* dismiss()
dismiss(st) == IF st.queue # <<>> THEN dismissById(st, Head(st.queue).id) ELSE st

\* pauseTimer(id) that leaves the timeout pending
pauseTimerKeepingTimeout(st, id) == st

\* pauseTimer(id)
pauseTimer(st, id) ==
  IF st.active = id THEN [stopTimer(st) EXCEPT !.active = id] ELSE st

\* resumeTimer(id, durationMs); hasDuration says whether durationMs was given.
\* The toast at the index is replaced by a copy with the next duration.
resumeTimer(st, id, hasDuration, durationMs) ==
  LET index == findIndex(st.queue, id)
      toast == st.queue[index]
      updated == [toast EXCEPT
                    !.durationMs = IF hasDuration THEN durationMs ELSE toast.durationMs,
                    !.paused = IF index = 1 THEN FALSE ELSE toast.paused,
                    !.resumed = IF index = 1 THEN "head" ELSE "queued"]
      replaced == [st EXCEPT !.queue[index] = updated]
  IN  IF index = 0 THEN st
      ELSE IF index = 1 THEN startTimer(replaced, updated)
      ELSE replaced

\* clearAll()
clearAll(st) == [stopTimer(st) EXCEPT !.active = NoToastId, !.queue = <<>>]

\* the callback of the timeout (the timeout that has fired is no longer pending)
onTimeout(st, id) == IF st.active = id THEN dismissById(st, id) ELSE st

\* ghost: the head is marked as paused by pauseTimer(id) with its id
MarkPaused(queue, id) ==
  IF queue # <<>> /\ Head(queue).id = id
  THEN [queue EXCEPT ![1].paused = TRUE, ![1].resumed = "never"]
  ELSE queue

UidsOf(queue) == {queue[i].uid : i \in 1..Len(queue)}

\* ghost: the toasts of `before` that `after` no longer holds, in queue order
RemovedFrom(before, after) == SelectSeq(before, LAMBDA t : t.uid \notin UidsOf(after))

\* shown and resumed count the show() and resumeTimer() calls so far
NoToastCall ==
  [op |-> "none", index |-> 0, removed |-> <<>>, timer |-> NoTimer, shown |-> 0,
   resumed |-> 0]

ToastInit ==
  /\ toastQueue = <<>>
  /\ toastTimer = NoTimer
  /\ activeTimerToastId = NoToastId
  /\ toastSequence = 0
  /\ toastLog = NoToastCall

\* The service takes the state st; the ghost notes the call, where the queue
\* held the toast it named (0: nowhere, or the call names none), the toasts
\* that left the queue and the timer before the call.
CommitToast(op, index, st, seq, shown, resumed) ==
  /\ toastQueue' = st.queue
  /\ toastTimer' = st.timer
  /\ activeTimerToastId' = st.active
  /\ toastSequence' = seq
  /\ toastLog' = [op |-> op, index |-> index,
                  removed |-> RemovedFrom(toastQueue, st.queue),
                  timer |-> toastTimer, shown |-> shown, resumed |-> resumed]

\* show(options), for the calls of a run numbered in `uids`
Show(options, uids) ==
  /\ toastLog.shown + 1 \in uids
  /\ CommitToast("show", 0,
       show(ToastState, toToast(options, toastSequence, toastLog.shown + 1)),
       IF options.hasId THEN toastSequence ELSE toastSequence + 1,
       toastLog.shown + 1, toastLog.resumed)

\* dismiss()
Dismiss ==
  CommitToast("dismiss", 0, dismiss(ToastState), toastSequence, toastLog.shown,
              toastLog.resumed)

\* dismissById(id)
DismissById(id) ==
  CommitToast("dismissById", findIndex(toastQueue, id),
              dismissById(ToastState, id), toastSequence, toastLog.shown,
              toastLog.resumed)

\* pauseTimer(id)
PauseTimer(id) ==
  \E st \in {pauseTimer(ToastState, id)} :
    CommitToast("pauseTimer", findIndex(toastQueue, id),
                [st EXCEPT !.queue = MarkPaused(st.queue, id)],
                toastSequence, toastLog.shown, toastLog.resumed)

\* resumeTimer(id, durationMs), at most `limit` times in a run
ResumeTimer(id, hasDuration, durationMs, limit) ==
  /\ toastLog.resumed < limit
  /\ CommitToast("resumeTimer", findIndex(toastQueue, id),
                 resumeTimer(ToastState, id, hasDuration, durationMs),
                 toastSequence, toastLog.shown, toastLog.resumed + 1)

\* clearAll()
ClearAll ==
  CommitToast("clearAll", 0, clearAll(ToastState), toastSequence, toastLog.shown,
              toastLog.resumed)

\* TickMs pass while no timeout is due
Tick ==
  /\ toastTimer # NoTimer
  /\ toastTimer.elapsed < toastTimer.durationMs
  /\ CommitToast("tick", 0,
       [ToastState EXCEPT !.timer.elapsed = Min(@ + TickMs, toastTimer.durationMs)],
       toastSequence, toastLog.shown, toastLog.resumed)

\* the delay of the pending timeout has elapsed: its callback runs
Timeout ==
  /\ toastTimer # NoTimer
  /\ toastTimer.elapsed >= toastTimer.durationMs
  /\ CommitToast("timeout", 0, onTimeout(stopTimer(ToastState), toastTimer.id),
                 toastSequence, toastLog.shown, toastLog.resumed)

HostKinds == {"batching", "legacy"}

\* Field points of the pointer events: on token A, on the start handle of line
\* L, and on pen stroke P
Points == {Pt(10, 10), Pt(20, 25), Pt(40, 40)}

\* The board when the session starts: a token, a line and a pen stroke
InitialScene ==
  Scene(<<Token(<<"A">>, 10, 10)>>,
        <<Drawing(<<"L">>, "line", <<Pt(20, 25), Pt(20, 45)>>, LineWidth),
          Drawing(<<"P">>, "pen", <<Pt(38, 40), Pt(42, 40)>>, PenWidth)>>)

\* What a pointer's `down` took hold of: the tokens and drawings with that id
Objects(sc, id) ==
  [tokens |-> SelectSeq(sc.tokens, LAMBDA t : t.id = id),
   drawings |-> SelectSeq(sc.drawings, LAMBDA d : d.id = id)]

\* The drawings with that id
Shape(sc, id) == SelectSeq(sc.drawings, LAMBDA d : d.id = id)

PtrIdle == [down |-> FALSE, grabbed |-> NoId, created |-> FALSE]

\* gesture while gestures are not followed
GestureOff == [phase |-> "off"]

NoGesture == [phase |-> "none"]

NoEvent == [kind |-> "none"]

\* nowISO() during the call: the clock reads later at every update of the scene
Now == edits + 1

HostState ==
  [scene |-> sceneSnapshot, undo |-> undoStack, redo |-> redoStack,
   batch |-> isHistoryBatchActive, pending |-> pendingHistorySnapshot,
   dirty |-> pendingHistoryDirty, sets |-> <<>>, now |-> Now]

ToolStates ==
  [select |-> selectTool, line |-> lineTool, pen |-> penTool, arrow |-> arrowTool,
   cone |-> coneTool, eraser |-> EraserToolInit]

\* engine.setScene for each scene of sets, in call order
RECURSIVE SetSceneAll(_, _, _)
SetSceneAll(st, sets, i) ==
  IF i > Len(sets) THEN st
  ELSE SetSceneAll(RefitOrSchedule(st, sets[i], viewport), sets, i + 1)

EngineSetScenes(sets) ==
  IF sets = <<>> THEN UNCHANGED engineVars
  ELSE /\ engineScene' = sets[Len(sets)]
       /\ \E st \in {SetSceneAll(EngineTransformState, sets, 1)} :
            CommitTransformState("setScene", st, sets[Len(sets)])
       /\ rendered' = NoDraw
       /\ UNCHANGED <<viewport, dpr, destroyed, layerRenderers>>

\* Writes a host record back to the host's fields.  The registry's scene is
\* the scene the last mutator returned, or the one undo/redo handed over.
CommitHost(h) ==
  /\ sceneSnapshot' = h.scene
  /\ undoStack' = h.undo
  /\ redoStack' = h.redo
  /\ isHistoryBatchActive' = h.batch
  /\ pendingHistorySnapshot' = h.pending
  /\ pendingHistoryDirty' = h.dirty
  /\ registryScene' = h.scene
  /\ EngineSetScenes(h.sets)

CommitTool(toolId, tool) ==
  /\ selectTool' = IF toolId = "select" THEN tool ELSE selectTool
  /\ lineTool' = IF toolId = "line" THEN tool ELSE lineTool
  /\ penTool' = IF toolId = "pen" THEN tool ELSE penTool
  /\ arrowTool' = IF toolId = "arrow" THEN tool ELSE arrowTool
  /\ coneTool' = IF toolId = "cone" THEN tool ELSE coneTool

(***************************************************************************)
(* configure                                                               *)
(*                                                                         *)
(* A JavaScript value as the configure methods look at it: its typeof,     *)
(* whether Number.isFinite holds of it, the number in hundredths and the   *)
(* text of a string.  A config is null, undefined, a primitive, or an      *)
(* object with at most one property (every other property reads as         *)
(* undefined; key "" is the empty object).                                 *)
(***************************************************************************)
JsNumber(n) == [type |-> "number", finite |-> TRUE, num |-> n, str |-> ""]

JsNaN == [type |-> "number", finite |-> FALSE, num |-> 0, str |-> "NaN"]

JsInfinity == [type |-> "number", finite |-> FALSE, num |-> 0, str |-> "Infinity"]

JsString(text) == [type |-> "string", finite |-> FALSE, num |-> 0, str |-> text]

JsUndefined == [type |-> "undefined", finite |-> FALSE, num |-> 0, str |-> ""]

JsObject(key, value) == [type |-> "object", truthy |-> TRUE, key |-> key, value |-> value]

\* typeof null is "object"; null, undefined, 0 and "" are falsy
JsPrimitive(type, truthy) ==
  [type |-> type, truthy |-> truthy, key |-> "", value |-> JsUndefined]

\* maybe.<name>
Property(config, name) == IF config.key = name THEN config.value ELSE JsUndefined

\* the negation of !config || typeof config !== 'object'
IsObject(config) == config.truthy /\ config.type = "object"

\* typeof v === 'number' && Number.isFinite(v)
IsFiniteNumber(v) == v.type = "number" /\ v.finite

\* The settings of the built-in tools after construction, lengths in hundredths
ToolSettingsInit ==
  [select |-> [tokenRadius |-> TOKEN_HIT_RADIUS],
   line |-> [stroke |-> "#1f2937", width |-> LineWidth],
   pen |-> [stroke |-> "#f8fafc", width |-> PenWidth],
   arrow |-> [color |-> "#facc15", width |-> ArrowWidth],
   eraser |-> [radius |-> EraserRadius]]

\* SelectTool.configure: Math.max(0.5, tokenRadius)
SelectToolConfigure(tool, config) ==
  IF ~IsObject(config) THEN tool
  ELSE IF IsFiniteNumber(Property(config, "tokenRadius"))
       THEN [tool EXCEPT !.tokenRadius = Max(50, Property(config, "tokenRadius").num)]
       ELSE tool

\* the stroke of the line and pen tools: a string color replaces it
WithStroke(tool, config) ==
  IF Property(config, "color").type = "string"
  THEN [tool EXCEPT !.stroke = Property(config, "color").str]
  ELSE tool

\* LineTool.configure: Math.max(0.4, Math.min(width, 10))
LineToolConfigure(tool, config) ==
  IF ~IsObject(config) THEN tool
  ELSE IF IsFiniteNumber(Property(config, "width"))
       THEN [WithStroke(tool, config) EXCEPT
               !.width = Max(40, Min(Property(config, "width").num, 1000))]
       ELSE WithStroke(tool, config)

\* PenTool.configure: Math.max(0.5, Math.min(width, 12))
PenToolConfigure(tool, config) ==
  IF ~IsObject(config) THEN tool
  ELSE IF IsFiniteNumber(Property(config, "width"))
       THEN [WithStroke(tool, config) EXCEPT
               !.width = Max(50, Min(Property(config, "width").num, 1200))]
       ELSE WithStroke(tool, config)

\* the color of the arrow tool
WithColor(tool, config) ==
  IF Property(config, "color").type = "string"
  THEN [tool EXCEPT !.color = Property(config, "color").str]
  ELSE tool

\* ArrowTool.configure: Math.max(0.5, Math.min(width, 12))
ArrowToolConfigure(tool, config) ==
  IF ~IsObject(config) THEN tool
  ELSE IF IsFiniteNumber(Property(config, "width"))
       THEN [WithColor(tool, config) EXCEPT
               !.width = Max(50, Min(Property(config, "width").num, 1200))]
       ELSE WithColor(tool, config)

\* EraserTool.configure without the lower limit
EraserToolConfigureNoFloor(tool, config) ==
  IF ~IsObject(config) THEN tool
  ELSE IF IsFiniteNumber(Property(config, "radius"))
       THEN [tool EXCEPT !.radius = Min(Property(config, "radius").num, 1200)]
       ELSE tool

\* EraserTool.configure: Math.max(1, Math.min(radius, 12))
EraserToolConfigure(tool, config) ==
  IF ~IsObject(config) THEN tool
  ELSE IF IsFiniteNumber(Property(config, "radius"))
       THEN [tool EXCEPT !.radius = Max(100, Min(Property(config, "radius").num, 1200))]
       ELSE tool

ToolsInit ==
  /\ selectTool = SelectToolInit
  /\ toolSettings = ToolSettingsInit
  /\ configured = 0
  /\ lineTool = LineToolInit
  /\ penTool = PenToolInit
  /\ arrowTool = ArrowToolInit
  /\ coneTool = ConeToolInit
  /\ ptr = [p \in Pointers |-> PtrIdle]
  /\ emitted = <<>>
  /\ lastEvent = NoEvent

\* A tool as the registry sees it: its id and which of the optional methods
\* handlePointer, activate, deactivate and configure it defines
Tool(id, hooks) == [id |-> id, hooks |-> hooks]

\* createDefaultTools: the built-in tools define handlePointer alone
createDefaultTools ==
  <<Tool("select", {"handlePointer", "configure"}),
    Tool("line", {"handlePointer", "configure"}),
    Tool("pen", {"handlePointer", "configure"}),
    Tool("arrow", {"handlePointer", "configure"}),
    Tool("cone", {"handlePointer"}), Tool("eraser", {"handlePointer", "configure"})>>

NoTool == [id |-> "none", hooks |-> {}]

\* this.tools.get(id)
ToolOf(tools, id) ==
  IF \E i \in DOMAIN tools : tools[i].id = id
  THEN tools[CHOOSE i \in DOMAIN tools : tools[i].id = id]
  ELSE NoTool

\* listTools(): the values of the map, in its order
listTools(tools) == tools

\* new DrawToolRegistry({ tools }), for tools of distinct ids
RegistryInit(tools) ==
  /\ registryTools = tools
  /\ activeToolId = IF tools = <<>> THEN "select" ELSE tools[1].id
  /\ calls = <<>>

HostInitOn(kinds, sc) ==
  /\ hostKind \in kinds
  /\ sceneSnapshot = sc
  /\ registryScene = sc
  /\ undoStack = <<>>
  /\ redoStack = <<>>
  /\ isHistoryBatchActive = FALSE
  /\ pendingHistorySnapshot = <<>>
  /\ pendingHistoryDirty = FALSE
  /\ edits = 0
  /\ historyPhase = "edits"
  /\ evaluated = NotEvaluated
  /\ ToolsInit
  /\ ToastInit
  /\ activeSceneId = sc.id
  /\ sceneDeck = {}
  /\ sceneHistories = {}

\* A host whose registry holds the default tools, with one of toolIds chosen
HostInitWith(kinds, toolIds, sc) ==
  /\ HostInitOn(kinds, sc)
  /\ registryTools = createDefaultTools
  /\ activeToolId \in toolIds
  /\ calls = <<>>

(***************************************************************************)
(* Ghost bookkeeping of gestures                                           *)
(***************************************************************************)
\* ptr after the pointer event ev with result r: what the pointer's `down`
\* grabbed, whether it created it, the grabbed shape before the `down` and
\* after the latest update of the scene.
PtrAfter(ev, r) ==
  LET p == ev.pointerId
      grabbed == r.out.grabbed
      seen == [q \in Pointers |->
                 IF ptr[q].down /\ r.out.muts # <<>>
                 THEN [ptr[q] EXCEPT !.latest = Shape(r.host.scene, ptr[q].grabbed)]
                 ELSE ptr[q]]
  IN  IF ev.type = "down"
      THEN [seen EXCEPT ![p] =
              [down |-> TRUE, grabbed |-> grabbed, created |-> r.out.created,
               atDown |-> Shape(sceneSnapshot, grabbed),
               latest |-> Shape(r.host.scene, grabbed)]]
      ELSE IF ev.type \in {"up", "cancel"} THEN [seen EXCEPT ![p] = PtrIdle]
      ELSE seen

\* gesture after the pointer event ev with result r.  A gesture is followed
\* from a `down` with no other pointer down to its `up` or `cancel`: base is
\* the height of the undo stack before the `down`, redo that of the redo stack,
\* first the scene before the
\* gesture's first mutation, moved whether the pointer moved, pure whether
\* nothing but the events of this pointer happened.
GestureAfter(ev, r) ==
  LET p == ev.pointerId
      mutated == r.out.muts # <<>>
  IN  IF gesture = GestureOff THEN GestureOff
      ELSE IF ev.type = "down" /\ \A q \in Pointers : ~ptr[q].down
      THEN [phase |-> "active", pointer |-> p,
            first |-> IF mutated THEN <<sceneSnapshot>> ELSE <<>>,
            base |-> Len(undoStack), redo |-> Len(redoStack), moved |-> FALSE,
            pure |-> TRUE]
      ELSE IF gesture.phase # "active" THEN NoGesture
      ELSE IF p # gesture.pointer
      THEN [gesture EXCEPT !.pure = @ /\ ev.type # "down" /\ ~mutated]
      ELSE IF ev.type = "move"
      THEN [gesture EXCEPT !.first = IF @ = <<>> /\ mutated THEN <<sceneSnapshot>> ELSE @,
                           !.moved = TRUE]
      ELSE [phase |-> "ended", end |-> ev.type,
            first |-> IF gesture.first = <<>> /\ mutated THEN <<sceneSnapshot>>
                      ELSE gesture.first,
            base |-> gesture.base, redo |-> gesture.redo,
            moved |-> gesture.moved, pure |-> gesture.pure]

\* A gesture of down, moves and up with nothing in between that changed the scene
CompleteGesture(g, sc) ==
  /\ g.phase = "ended"
  /\ g.end = "up"
  /\ g.moved
  /\ g.pure
  /\ g.first # <<>>
  /\ g.first[1] # sc

\* gesture after undo (key = "undo") or redo (key = "redo")
GestureAfterKey(key) ==
  IF gesture = GestureOff THEN GestureOff
  ELSE IF gesture.phase = "active"
  THEN [gesture EXCEPT !.pure = FALSE]
  ELSE IF key = "undo" /\ CompleteGesture(gesture, sceneSnapshot)
  THEN [phase |-> "undone", after |-> sceneSnapshot]
  ELSE NoGesture

(***************************************************************************)
(* Host actions                                                            *)
(***************************************************************************)
\* What an event can change, lastEvent aside.  An event that changes none of
\* it leaves no trace: lastEvent keeps naming the last event that did.
HostFields ==
  <<sceneSnapshot, undoStack, redoStack, isHistoryBatchActive, pendingHistorySnapshot,
    pendingHistoryDirty, registryScene, activeToolId, selectTool, lineTool, penTool,
    arrowTool, coneTool, ptr, gesture, edits, emitted, engineVars>>

Note(event) == lastEvent' = IF HostFields' = HostFields THEN lastEvent ELSE event

\* One pointer event handed to the host's handlePointer, lastEvent aside.  A pointer goes
\* down, moves with a button held and goes up or is cancelled; a pointer that
\* is not down moves with or without a button reported as held.  A run
\* explores events as long as no more than `limit` of them update the scene.
\* `stamp` is what Date.now() and Math.random() give the tools during the event.
HandlePointerStamped(p, type, pt, buttons, stamp, limit) ==
  /\ type = "down" => (~ptr[p].down /\ buttons = 1)
  /\ type \in {"up", "cancel"} => (ptr[p].down /\ buttons = 0)
  /\ (type = "move" /\ ptr[p].down) => buttons = 1
  /\ \E ev \in {[type |-> type, pointerId |-> p, point |-> pt, buttons |-> buttons,
                 stamp |-> stamp]} :
       \E r \in {HostHandlePointer(hostKind, HostState,
                                   ToolOf(registryTools, activeToolId).id, ToolStates, ev)} :
         /\ edits + (IF r.out.muts = <<>> THEN 0 ELSE 1) <= limit
         /\ CommitHost(r.host)
         /\ CommitTool(ToolOf(registryTools, activeToolId).id, r.out.tool)
         /\ edits' = edits + (IF r.out.muts = <<>> THEN 0 ELSE 1)
         /\ ptr' = PtrAfter(ev, r)
         /\ gesture' = GestureAfter(ev, r)
         /\ emitted' = Emitted(r.out.emits,
                                r.host.scene.drawings # sceneSnapshot.drawings)
  /\ UNCHANGED <<hostKind, activeToolId, registryTools, toolSettings, configured, evaluated,
                 pointerHandlers, dispatched, toastVars, deckVars, calls>>

\* The event of a run in which the clock and the random numbers give every
\* update of the scene a stamp of its own
HandlePointer(p, type, pt, buttons, limit) ==
  HandlePointerStamped(p, type, pt, buttons, edits, limit)

PointerEvent(p, type, pt, buttons, limit) ==
  /\ HandlePointer(p, type, pt, buttons, limit)
  /\ Note([kind |-> "pointer", type |-> type, pointerId |-> p])

\* The same event, with lastEvent naming every event, its field point and its
\* buttons, whether the event changed anything or not
PointerEventAt(p, type, pt, buttons, limit) ==
  /\ HandlePointer(p, type, pt, buttons, limit)
  /\ lastEvent' = [kind |-> "pointer", type |-> type, pointerId |-> p, point |-> pt,
                   buttons |-> buttons]

\* The hooks setActiveTool(id) calls, each with this.activeToolId as it is
\* during the call: none for an unknown id or for the active one, else
\* deactivate of the active tool and then activate of the next
setActiveToolCalls(tools, active, id) ==
  IF ToolOf(tools, id) = NoTool \/ active = id THEN <<>>
  ELSE (IF "deactivate" \in ToolOf(tools, active).hooks
        THEN <<[hook |-> "deactivate", tool |-> active, active |-> active]>> ELSE <<>>)
       \o (IF "activate" \in ToolOf(tools, id).hooks
           THEN <<[hook |-> "activate", tool |-> id, active |-> id]>> ELSE <<>>)

\* setActiveTool that takes any id for a tool
SetActiveToolUnchecked(id) ==
  /\ activeToolId' = id
  /\ calls' = setActiveToolCalls(registryTools, activeToolId, id)
  /\ lastEvent' = [kind |-> "setActiveTool", id |-> id, threw |-> FALSE]
  /\ UNCHANGED <<engineVars, hostKind, sceneSnapshot, undoStack, redoStack,
                 isHistoryBatchActive, pendingHistorySnapshot, pendingHistoryDirty,
                 registryScene, registryTools, toolSettings, configured, evaluated,
                 pointerHandlers, dispatched, toastVars, deckVars,
                 selectTool, lineTool, penTool, arrowTool,
                 coneTool, ptr, gesture, edits, emitted>>

\* registry.setActiveTool(id); for an unknown id it throws and changes nothing
SetActiveTool(id) ==
  /\ activeToolId' = IF ToolOf(registryTools, id) = NoTool THEN activeToolId ELSE id
  /\ calls' = setActiveToolCalls(registryTools, activeToolId, id)
  /\ lastEvent' = [kind |-> "setActiveTool", id |-> id,
                   threw |-> ToolOf(registryTools, id) = NoTool]
  /\ UNCHANGED <<engineVars, hostKind, sceneSnapshot, undoStack, redoStack,
                 isHistoryBatchActive, pendingHistorySnapshot, pendingHistoryDirty,
                 registryScene, registryTools, toolSettings, configured, evaluated,
                 pointerHandlers, dispatched, toastVars, deckVars,
                 selectTool, lineTool, penTool, arrowTool,
                 coneTool, ptr, gesture, edits, emitted>>

\* registry.configureTool(id, config): tool?.configure?.(config), which does
\* nothing for an unknown id and for a tool without configure (the cone tool)
configureTool(tools, settings, id, config) ==
  IF "configure" \notin ToolOf(tools, id).hooks THEN settings
  ELSE CASE id = "select" ->
              [settings EXCEPT !.select = SelectToolConfigure(@, config)]
         [] id = "line" -> [settings EXCEPT !.line = LineToolConfigure(@, config)]
         [] id = "pen" -> [settings EXCEPT !.pen = PenToolConfigure(@, config)]
         [] id = "arrow" -> [settings EXCEPT !.arrow = ArrowToolConfigure(@, config)]
         [] id = "eraser" -> [settings EXCEPT !.eraser = EraserToolConfigure(@, config)]
         [] OTHER -> settings

ConfigureTool(id, config, limit) ==
  /\ configured < limit
  /\ configured' = configured + 1
  /\ toolSettings' = configureTool(registryTools, toolSettings, id, config)
  /\ lastEvent' = [kind |-> "configureTool", id |-> id, config |-> config, threw |-> FALSE]
  /\ UNCHANGED <<engineVars, hostKind, sceneSnapshot, undoStack, redoStack,
                 isHistoryBatchActive, pendingHistorySnapshot, pendingHistoryDirty,
                 registryScene, activeToolId, registryTools, calls, evaluated,
                 pointerHandlers, dispatched, toastVars, deckVars, selectTool,
                 lineTool, penTool, arrowTool, coneTool, ptr, gesture, edits, emitted,
                 historyPhase>>

\* Ctrl/Cmd+Z
Undo ==
  /\ CommitHost(IF hostKind = "batching" THEN undo(HostState) ELSE undoLegacy(HostState))
  /\ gesture' = GestureAfterKey("undo")
  /\ UNCHANGED <<hostKind, activeToolId, registryTools, toolSettings, configured, evaluated,
                 pointerHandlers, dispatched, toastVars, deckVars, calls, selectTool, lineTool,
                 penTool, arrowTool, coneTool, ptr, edits, emitted>>
  /\ Note([kind |-> "undo"])

\* Ctrl/Cmd+Shift+Z, Ctrl/Cmd+Y
Redo ==
  /\ CommitHost(IF hostKind = "batching" THEN redo(HostState) ELSE redoLegacy(HostState))
  /\ gesture' = GestureAfterKey("redo")
  /\ UNCHANGED <<hostKind, activeToolId, registryTools, toolSettings, configured, evaluated,
                 pointerHandlers, dispatched, toastVars, deckVars, calls, selectTool, lineTool,
                 penTool, arrowTool, coneTool, ptr, edits, emitted>>
  /\ Note([kind |-> "redo"])

\* handleDrop: a player dragged from the roster onto the field.  The player's
\* token moves to the drop point (or is created there), then the host
\* switches to the select tool.
HandleDrop(player, pt) ==
  /\ \E h \in {IF hostKind = "batching"
               THEN applySceneUpdate(HostState, [op |-> "drop", id |-> player, to |-> pt])
               ELSE applySceneUpdateLegacy(HostState,
                                           [op |-> "drop", id |-> player, to |-> pt])} :
       CommitHost(h)
  /\ activeToolId' = "select"
  /\ calls' = setActiveToolCalls(registryTools, activeToolId, "select")
  /\ edits' = edits + 1
  /\ gesture' = IF gesture = GestureOff THEN GestureOff ELSE NoGesture
  /\ UNCHANGED <<hostKind, registryTools, toolSettings, configured, evaluated,
                 pointerHandlers, dispatched, toastVars, deckVars,
                 selectTool, lineTool, penTool, arrowTool,
                 coneTool, ptr, emitted>>
  /\ Note([kind |-> "drop"])

\* The entry and the history of the active scene, as the deck and the map of
\* histories hold them when another scene becomes active.
ActiveEntry == [id |-> activeSceneId, snapshot |-> sceneSnapshot]

ActiveHistory == [id |-> activeSceneId, undo |-> undoStack, redo |-> redoStack]

DeckIds == {activeSceneId} \cup {e.id : e \in sceneDeck}

\* The host shows the scene `snapshot` under the id `id`, with the history
\* `history`: activeSceneId.set, sceneSnapshot.set, toolRegistry.updateScene
\* and engine.setScene.  The history batch of a gesture stays as it is.
ShowScene(id, snapshot, history, deck, histories) ==
  /\ activeSceneId' = id
  /\ sceneDeck' = deck
  /\ sceneHistories' = histories
  /\ CommitHost([HostState EXCEPT !.scene = snapshot, !.undo = history.undo,
                                  !.redo = history.redo, !.sets = <<snapshot>>])
  /\ gesture' = IF gesture = GestureOff THEN GestureOff ELSE NoGesture
  /\ UNCHANGED <<hostKind, activeToolId, registryTools, toolSettings, configured,
                 evaluated, pointerHandlers, dispatched, toastVars, calls, selectTool,
                 lineTool, penTool, arrowTool, coneTool, ptr, edits, emitted>>

\* addScene(): a copy of the current scene under the id createSceneId() gave,
\* with an empty history, becomes the active scene
AddScene(newId) ==
  /\ newId \notin DeckIds
  /\ ShowScene(newId, withTimestamp([sceneSnapshot EXCEPT !.id = newId], Now),
               [undo |-> <<>>, redo |-> <<>>],
               sceneDeck \cup {ActiveEntry}, sceneHistories \cup {ActiveHistory})
  /\ Note([kind |-> "addScene"])

\* activateScene(sceneId): nothing for the active scene and for an id the
\* deck does not hold
ActivateScene(sceneId) ==
  /\ sceneId # activeSceneId
  /\ \E entry \in sceneDeck, history \in sceneHistories :
       /\ entry.id = sceneId
       /\ history.id = sceneId
       /\ ShowScene(sceneId, entry.snapshot, history,
                    (sceneDeck \ {entry}) \cup {ActiveEntry},
                    (sceneHistories \ {history}) \cup {ActiveHistory})
  /\ Note([kind |-> "activateScene"])

(***************************************************************************)
(* Specifications                                                          *)
(***************************************************************************)
\* The host with its tools: the events of two pointers on one board, for each
\* active tool.  The tools see the history only through the scene, so one host
\* stands for both here; undo and redo are followed in SpecGesture.
Init ==
  /\ EngineInitWith({1})
  /\ HostInitWith({"batching"}, Tools, InitialScene)
  /\ gesture = GestureOff

Next ==
  \/ \E p \in Pointers, type \in {"down", "move", "up", "cancel"}, pt \in Points,
        buttons \in {0, 1} :
       PointerEvent(p, type, pt, buttons, MaxSceneUpdates) /\ UNCHANGED historyPhase

Spec == Init /\ [][Next]_vars

\* The gestures of one pointer, followed from `down` to `up` or `cancel` and
\* through the undo and redo after them.
InitGesture ==
  /\ EngineInitWith({1})
  /\ HostInitWith(HostKinds, Tools, InitialScene)
  /\ gesture = NoGesture

NextGesture ==
  \/ \E type \in {"down", "move", "up", "cancel"}, pt \in Points, buttons \in {0, 1} :
       PointerEvent(1, type, pt, buttons, MaxGestureUpdates) /\ UNCHANGED historyPhase
  \/ Undo /\ UNCHANGED historyPhase
  \/ Redo /\ UNCHANGED historyPhase

SpecGesture == InitGesture /\ [][NextGesture]_vars

\* The engine alone, driven through its public operations by an idle host.
InitEngine ==
  /\ EngineInitWith({1, 2})
  /\ HostInitWith({"batching"}, {"select"}, InitialScene)
  /\ gesture = GestureOff

NextEngine ==
  \/ \E sc \in EngineScenes \cup {NoScene} : SetScene(sc) /\ UNCHANGED hostVars
  \/ \E m \in TransformInputs : SetTransform(m) /\ UNCHANGED hostVars
  \/ AutoFitScene /\ UNCHANGED hostVars
  \/ \E vp \in Viewports : Resize(vp) /\ UNCHANGED hostVars
  \/ ScheduleDraw /\ UNCHANGED hostVars
  \/ \E r \in Callbacks : RegisterLayerRenderer(r) /\ UNCHANGED hostVars
  \/ \E r \in Callbacks : DisposeRenderer(r) /\ UNCHANGED hostVars
  \/ DrawNow /\ UNCHANGED hostVars
  \/ AnimationFrame /\ UNCHANGED hostVars
  \/ Destroy /\ UNCHANGED hostVars

SpecEngine == InitEngine /\ [][NextEngine]_vars

\* The pointer listeners of the engine: handlers come and go while the
\* transform changes and canvas pointer events arrive.
PointerHandlerIds == {"toolHandler", "probeHandler"}

\* the onPointer calls of the run: both handlers listen to "down", one of them
\* to "move" as well
Registrations ==
  { [type |-> "down", handler |-> "toolHandler"],
    [type |-> "down", handler |-> "probeHandler"],
    [type |-> "move", handler |-> "probeHandler"] }

RegistrationTypes == {r.type : r \in Registrations}

RPt(x, y) == [x |-> RInt(x), y |-> RInt(y)]

\* where the events happen: the client point, and the (left, top) of the canvas
EventPlaces ==
  { [client |-> RPt(30, 40), origin |-> RPt(0, 0)],
    [client |-> RPt(150, 200), origin |-> RPt(50, 100)] }

InitPointer ==
  /\ EngineInitWith({1, 2})
  /\ HostInitWith({"batching"}, {"select"}, InitialScene)
  /\ gesture = GestureOff

NextPointer ==
  \/ \E m \in TransformInputs : SetTransform(m) /\ UNCHANGED hostVars
  \/ \E r \in Registrations : OnPointer(r.type, r.handler) /\ UNCHANGED <<toolVars, toastVars>>
  \/ \E r \in Registrations : DisposePointer(r.type, r.handler) /\ UNCHANGED <<toolVars, toastVars>>
  \/ \E type \in RegistrationTypes, e \in EventPlaces :
       DispatchPointer(type, e.client, e.origin, 1) /\ UNCHANGED <<toolVars, toastVars>>
  \/ Destroy /\ UNCHANGED hostVars

SpecPointer == InitPointer /\ [][NextPointer]_vars

\* The toast service alone: toasts are shown, dismissed, paused and resumed
\* while time passes.
ToastUids == {1, 2, 3}

MaxResumes == 1

SavedToastId == <<"saved", 0>>

\* show() of a plain message, of a message with actions, and of a message
\* with actions, an id and a duration of its own
ToastOptions ==
  { [hasId |-> FALSE, id |-> NoToastId, hasDuration |-> FALSE, durationMs |-> 0,
     actions |-> FALSE],
    [hasId |-> FALSE, id |-> NoToastId, hasDuration |-> FALSE, durationMs |-> 0,
     actions |-> TRUE],
    [hasId |-> TRUE, id |-> SavedToastId, hasDuration |-> TRUE, durationMs |-> 1000,
     actions |-> TRUE] }

\* the ids the callers name: the saved id and the first generated one
ToastCallIds == {SavedToastId, nextToastId(0)}

\* resumeTimer(id), resumeTimer(id, 2000) and resumeTimer(id, 0)
ResumeDurations ==
  { [hasDuration |-> FALSE, durationMs |-> 0],
    [hasDuration |-> TRUE, durationMs |-> 2000],
    [hasDuration |-> TRUE, durationMs |-> 0] }

ToastAlone == UNCHANGED <<engineVars, toolVars, pointerHandlers, dispatched>>

InitToast ==
  /\ EngineInitWith({1})
  /\ HostInitWith({"batching"}, {"select"}, InitialScene)
  /\ gesture = GestureOff

NextToast ==
  \/ \E options \in ToastOptions : Show(options, ToastUids) /\ ToastAlone
  \/ Dismiss /\ ToastAlone
  \/ \E id \in ToastCallIds : DismissById(id) /\ ToastAlone
  \/ \E id \in ToastCallIds : PauseTimer(id) /\ ToastAlone
  \/ \E id \in ToastCallIds, d \in ResumeDurations :
       ResumeTimer(id, d.hasDuration, d.durationMs, MaxResumes) /\ ToastAlone
  \/ ClearAll /\ ToastAlone
  \/ Tick /\ ToastAlone
  \/ Timeout /\ ToastAlone

SpecToast == InitToast /\ [][NextToast]_vars

\* Time does not stop, and the browser runs the callback of a timeout that is
\* due: the steps Tick and Timeout are taken when they stay possible.
SpecToastFair ==
  /\ SpecToast
  /\ WF_vars(Tick /\ ToastAlone)
  /\ WF_vars(Timeout /\ ToastAlone)

\* The scene deck: the gestures of one pointer with the select tool on the
\* host with history batches, while scenes are added and activated and the
\* history is walked.
NewSceneIds == {"scene-1"}

MaxDeckUpdates == 1

\* on token A, and a free place
DeckPoints == {Pt(10, 10), Pt(60, 10)}

InitScenes ==
  /\ EngineInitWith({1})
  /\ HostInitWith({"batching"}, {"select"}, InitialScene)
  /\ gesture = GestureOff

NextScenes ==
  \/ \E type \in {"down", "move", "up"}, pt \in DeckPoints, buttons \in {0, 1} :
       PointerEvent(1, type, pt, buttons, MaxDeckUpdates) /\ UNCHANGED historyPhase
  \/ Undo /\ UNCHANGED historyPhase
  \/ Redo /\ UNCHANGED historyPhase
  \/ \E id \in NewSceneIds : AddScene(id) /\ UNCHANGED historyPhase
  \/ \E id \in NewSceneIds \cup {InitialScene.id} :
       ActivateScene(id) /\ UNCHANGED historyPhase

SpecScenes == InitScenes /\ [][NextScenes]_vars

\* The history alone: a run of drops, then undos, then redos and drops.  The
\* k-th drop puts the token of player A at (k, 1), so every edit leaves a
\* scene that no earlier edit left.
HistoryScene == Scene(<<Token(<<"A">>, 0, 1)>>, <<>>)

InitHistory ==
  /\ EngineInitWith({1})
  /\ HostInitWith(HostKinds, {"select"}, HistoryScene)
  /\ gesture = GestureOff

HistoryDrop ==
  /\ edits < MaxEdits
  /\ HandleDrop(<<"A">>, Pt(edits + 1, 1))
  /\ historyPhase' = IF historyPhase = "undos" THEN "after" ELSE historyPhase

HistoryUndo ==
  /\ historyPhase \in {"edits", "undos"}
  /\ Undo
  /\ historyPhase' = "undos"

HistoryRedo ==
  /\ historyPhase \in {"undos", "after"}
  /\ Redo
  /\ historyPhase' = "after"

NextHistory == HistoryDrop \/ HistoryUndo \/ HistoryRedo

SpecHistory == InitHistory /\ [][NextHistory]_vars

\* The eraser on boards of pen strokes and lines.  Dot is the stroke a pen
\* `down` leaves when no `move` follows, Short the stroke of the eraser's
\* test, Long a stroke of two segments, Bar a long and Dash a short line.
Dot == Drawing(<<"dot">>, "pen", <<Pt(50, 10)>>, PenWidth)

Short == Drawing(<<"short">>, "pen", <<Pt(0, 0), Pt(5, 0)>>, 200)

Long == Drawing(<<"long">>, "pen", <<Pt(0, 30), Pt(30, 30), Pt(60, 30)>>, PenWidth)

Bar == Drawing(<<"bar">>, "line", <<Pt(0, 50), Pt(40, 50)>>, LineWidth)

Dash == Drawing(<<"dash">>, "line", <<Pt(1, 1), Pt(4, 1)>>, LineWidth)

EraserDrawings == {Dot, Short, Long, Bar, Dash}

\* boards of one or two of these drawings, in either order
EraserScenes ==
  {Scene(<<>>, <<d>>) : d \in EraserDrawings}
    \cup UNION {{Scene(<<>>, <<d, e>>) : e \in EraserDrawings \ {d}} :
                  d \in EraserDrawings}

\* on Short and Dash, at the start of Long, on the joint of Long, on Bar, far from all
EraserPoints == {Pt(2, 0), Pt(0, 30), Pt(30, 30), Pt(20, 50), Pt(90, 45)}

\* no point of the scene is a cut point: the distances of a cut point to the
\* next erase circle are not followed
ExactScene(sc) ==
  \A i \in 1..Len(sc.drawings) :
    \A j \in 1..Len(sc.drawings[i].pts) : Len(sc.drawings[i].pts[j]) = 2

InitEraser ==
  /\ EngineInitWith({1})
  /\ \E sc \in EraserScenes : HostInitWith({"batching"}, {"eraser"}, sc)
  /\ gesture = GestureOff

NextEraser ==
  \/ \E type \in {"down", "move", "up", "cancel"}, pt \in EraserPoints,
        buttons \in {0, 1} :
       /\ ExactScene(sceneSnapshot)
       /\ PointerEventAt(1, type, pt, buttons, MaxErases)
       /\ UNCHANGED historyPhase

SpecEraser == InitEraser /\ [][NextEraser]_vars

\* The pen of one pointer on an empty board, sampled at points that lie
\* closer to each other than the pen's minimum distance (1 apart) and farther
\* (2 and more).
PenPoints == {Pt(5, 5), Pt(6, 5), Pt(7, 5), Pt(7, 7)}

InitPen ==
  /\ EngineInitWith({1})
  /\ HostInitWith({"batching"}, {"pen"}, Scene(<<>>, <<>>))
  /\ gesture = GestureOff

NextPen ==
  \/ \E type \in {"down", "move", "up", "cancel"}, pt \in PenPoints, buttons \in {0, 1} :
       PointerEventAt(1, type, pt, buttons, MaxPenSamples) /\ UNCHANGED historyPhase

SpecPen == InitPen /\ [][NextPen]_vars

\* The select tool of one pointer on a board where targets overlap: line Up
\* and line Across start 2 apart, pen stroke Over crosses Up, token B lies
\* beside the crossing and on no handle, token C on the start handles.
SelectScene ==
  Scene(<<Token(<<"A">>, 10, 40), Token(<<"B">>, 42, 20), Token(<<"C">>, 30, 5)>>,
        <<Drawing(<<"up">>, "line", <<Pt(30, 5), Pt(30, 45)>>, LineWidth),
          Drawing(<<"across">>, "line", <<Pt(32, 5), Pt(60, 5)>>, LineWidth),
          Drawing(<<"over">>, "pen", <<Pt(25, 20), Pt(35, 20)>>, PenWidth)>>)

\* on token A, 2 beside A, on the start handles of Up and Across (and on C),
\* on the bodies of Up and Over, on the body of Up alone, on token B and the
\* bodies of Up and Over, on nothing
SelectPoints ==
  {Pt(10, 40), Pt(12, 40), Pt(30, 5), Pt(30, 20), Pt(30, 30), Pt(35, 22), Pt(80, 45)}

InitSelect ==
  /\ EngineInitWith({1})
  /\ HostInitWith({"batching"}, {"select"}, SelectScene)
  /\ gesture = GestureOff

NextSelect ==
  \/ \E type \in {"down", "move", "up", "cancel"}, pt \in SelectPoints,
        buttons \in {0, 1} :
       PointerEventAt(1, type, pt, buttons, MaxSelectDrags) /\ UNCHANGED historyPhase

SpecSelect == InitSelect /\ [][NextSelect]_vars

\* Drags of the select tool on the same board: the pointer goes down on or
\* beside token A or on line Up and moves twice.
DragPoints == {Pt(10, 40), Pt(12, 40), Pt(30, 30), Pt(80, 45)}

NextDrag ==
  \/ \E type \in {"down", "move", "up", "cancel"}, pt \in DragPoints, buttons \in {0, 1} :
       PointerEventAt(1, type, pt, buttons, MaxTokenDrags) /\ UNCHANGED historyPhase

SpecDrag == InitSelect /\ [][NextDrag]_vars

\* The registry built from a list of tools: the default tools, no tool, or
\* tools that define activate and deactivate or neither, around a built-in one.
ProbeA == Tool("a", {})
ProbeB == Tool("b", {"activate", "deactivate"})
ProbeC == Tool("c", {"deactivate"})

ToolLists ==
  {createDefaultTools, <<>>, <<ProbeB, ProbeC, ProbeA>>,
   <<ProbeA, Tool("pen", {"handlePointer"}), ProbeB>>}

RegistryIds == Tools \cup {"a", "b", "c"}

\* on token A and on the start handle of line L
RegistryPoints == {Pt(10, 10), Pt(20, 25)}

InitRegistry ==
  /\ EngineInitWith({1})
  /\ HostInitOn({"batching"}, InitialScene)
  /\ \E tools \in ToolLists : RegistryInit(tools)
  /\ gesture = GestureOff

NextRegistry ==
  \/ \E id \in RegistryIds : SetActiveTool(id) /\ UNCHANGED historyPhase
  \/ \E type \in {"down", "move", "up", "cancel"}, pt \in RegistryPoints,
        buttons \in {0, 1} :
       PointerEventAt(1, type, pt, buttons, MaxRegistryUpdates) /\ UNCHANGED historyPhase

SpecRegistry == InitRegistry /\ [][NextRegistry]_vars

\* The tools that create drawings, and the eraser, within one millisecond:
\* Date.now() stays the same and Math.floor(Math.random() * 1000) is one of two
\* numbers.
Stamps == {<<1000, 7>>, <<1000, 8>>}

\* away from token A, line L and pen stroke P, and on P
IdPoints == {Pt(60, 10), Pt(40, 40)}

InitIds ==
  /\ EngineInitWith({1})
  /\ HostInitWith({"batching"}, {"line", "pen", "arrow", "cone", "eraser"}, InitialScene)
  /\ gesture = GestureOff

NextIds ==
  \/ \E type \in {"down", "move", "up", "cancel"}, pt \in IdPoints, buttons \in {0, 1},
        stamp \in Stamps :
       /\ HandlePointerStamped(1, type, pt, buttons, stamp, MaxIdUpdates)
       /\ lastEvent' = [kind |-> "pointer", type |-> type, pointerId |-> 1,
                        point |-> pt, buttons |-> buttons]
       /\ UNCHANGED historyPhase

SpecIds == InitIds /\ [][NextIds]_vars

\* The hosts on a scene that carries lastUpdatedAt: strokes of the pen, drops,
\* undo and redo.
Timed(sc, t) ==
  [x \in DOMAIN sc \cup {"lastUpdatedAt"} |-> IF x = "lastUpdatedAt" THEN t ELSE sc[x]]

InitClock ==
  /\ EngineInitWith({1})
  /\ HostInitWith(HostKinds, {"pen"}, Timed(InitialScene, 0))
  /\ gesture = GestureOff

NextClock ==
  \/ \E type \in {"down", "move", "up", "cancel"}, pt \in IdPoints, buttons \in {0, 1} :
       PointerEventAt(1, type, pt, buttons, MaxClockUpdates) /\ UNCHANGED historyPhase
  \/ edits < MaxClockUpdates /\ HandleDrop(<<"B">>, Pt(60, 10)) /\ UNCHANGED historyPhase
  \/ Undo /\ UNCHANGED historyPhase
  \/ Redo /\ UNCHANGED historyPhase

SpecClock == InitClock /\ [][NextClock]_vars

\* The layers of a live engine: two callbacks for the background, one of them
\* changing the context's style and transform, and one for the drawings, are
\* registered and disposed in any order; frames run and the host draws.
PaintCallbacks == {"backgroundRenderer", "gridRenderer", "drawingsRenderer"}

NextLayers ==
  \/ \E r \in PaintCallbacks : RegisterLayerRenderer(r) /\ UNCHANGED hostVars
  \/ \E r \in PaintCallbacks : DisposeRenderer(r) /\ UNCHANGED hostVars
  \/ ScheduleDraw /\ UNCHANGED hostVars
  \/ DrawNow /\ UNCHANGED hostVars
  \/ AnimationFrame /\ UNCHANGED hostVars

SpecLayers == InitEngine /\ [][NextLayers]_vars

\* The same with a callback for the background that throws
FaultyCallbacks == {"backgroundRenderer", "faultyRenderer", "drawingsRenderer"}

NextFaulty ==
  \/ \E r \in FaultyCallbacks : RegisterLayerRenderer(r) /\ UNCHANGED hostVars
  \/ \E r \in FaultyCallbacks : DisposeRenderer(r) /\ UNCHANGED hostVars
  \/ ScheduleDraw /\ UNCHANGED hostVars
  \/ DrawNow /\ UNCHANGED hostVars
  \/ AnimationFrame /\ UNCHANGED hostVars

SpecFaulty == InitEngine /\ [][NextFaulty]_vars

\* configureTool on the default tools: up to MaxConfigures calls, for every
\* built-in tool and an id the registry does not hold.  The numbers are -5,
\* 0.45, 7 and 13: below every range, inside the line tool's range alone,
\* inside every range, above every range.
MaxConfigures == 2

ConfigNumbers == {-500, 45, 700, 1300}

ConfigValues ==
  {JsNumber(n) : n \in ConfigNumbers}
    \cup {JsNaN, JsInfinity, JsString("#ff0000"), JsString("7"), JsUndefined}

Configs ==
  {JsObject(key, value) : key \in {"radius", "width", "tokenRadius", "color"},
                          value \in ConfigValues}
    \cup {JsObject("", JsUndefined), JsPrimitive("object", FALSE),
          JsPrimitive("undefined", FALSE), JsPrimitive("number", TRUE),
          JsPrimitive("string", TRUE)}

ConfigureIds == {"select", "line", "pen", "arrow", "cone", "eraser", "lasso"}

InitConfigure ==
  /\ EngineInitWith({1})
  /\ HostInitWith({"batching"}, {"select"}, InitialScene)
  /\ gesture = GestureOff

NextConfigure ==
  \E id \in ConfigureIds, config \in Configs : ConfigureTool(id, config, MaxConfigures)

SpecConfigure == InitConfigure /\ [][NextConfigure]_vars

\* Direct calls of matrixInvert, one in a run (the function is pure).  The
\* matrix has the linear part of base scaled by 2^exp and the translation
\* of base: its determinant is that of base times 4^exp, so that with exp
\* -26 and -27 determinants lie around Number.EPSILON = 2^-52.
InvertEntries == {RInt(-1), RZero, ROne, RInt(3), <<1, 2>>}

InvertBases ==
  {Mat(a, b, c, d, t[1], t[2]) :
     a \in InvertEntries, b \in InvertEntries, c \in InvertEntries, d \in InvertEntries,
     t \in {<<RZero, RZero>>, <<RInt(3), RInt(-2)>>}}

InvertExponents == {0, -26, -27}

ScaledMatrix(base, exp) ==
  Mat(Scaled(base.a, exp), Scaled(base.b, exp), Scaled(base.c, exp), Scaled(base.d, exp),
      Scaled(base.tx, 0), Scaled(base.ty, 0))

\* the frame of a direct call of a core-geometry function
EvaluatedAlone ==
  UNCHANGED <<engineVars, hostKind, sceneSnapshot, undoStack, redoStack,
              isHistoryBatchActive, pendingHistorySnapshot, pendingHistoryDirty,
              registryScene, activeToolId, registryTools, calls, toolSettings,
              configured,
              pointerHandlers, dispatched, toastVars, deckVars,
              selectTool, lineTool, penTool, arrowTool, coneTool, ptr,
              gesture, edits, emitted, lastEvent, historyPhase>>

EvaluateInvert(base, exp) ==
  /\ evaluated' = [op |-> "matrixInvert", base |-> base, exp |-> exp,
                   out |-> matrixInvertScaled(ScaledMatrix(base, exp))]
  /\ EvaluatedAlone

NextInvert ==
  /\ evaluated = NotEvaluated
  /\ \E base \in InvertBases, exp \in InvertExponents : EvaluateInvert(base, exp)

SpecInvert == InitConfigure /\ [][NextInvert]_vars

\* Direct calls of matrixMultiply and composeTransforms, one in a run: a
\* translation, a scaling with two factors, the quarter turn of
\* matrixRotate90, a shear, a matrix that is not invertible, and a scaling by
\* one half with a translation
ComposeMatrices ==
  {matrixTranslate(RInt(3), RInt(-2)), matrixScale2(RInt(2), RInt(3)),
   Mat(RZero, ROne, RInt(-1), RZero, RZero, RZero),
   Mat(ROne, RZero, ROne, ROne, RZero, RZero),
   Mat(ROne, RInt(2), RInt(2), RInt(4), ROne, ROne),
   Mat(<<1, 2>>, RZero, RZero, <<1, 2>>, RInt(5), RZero)}

ComposePoints ==
  {[x |-> RZero, y |-> RZero], [x |-> ROne, y |-> RInt(2)], [x |-> <<-3, 2>>, y |-> RInt(4)]}

MaxComposeLen == 3

ComposeLists ==
  UNION {[1..n -> ComposeMatrices] : n \in 0..MaxComposeLen}

EvaluateMultiply(m1, m2) ==
  /\ evaluated' = [op |-> "matrixMultiply", m1 |-> m1, m2 |-> m2,
                   out |-> matrixMultiply(m1, m2)]
  /\ EvaluatedAlone

EvaluateCompose(transforms) ==
  /\ evaluated' = [op |-> "composeTransforms", transforms |-> transforms,
                   out |-> composeTransforms(transforms)]
  /\ EvaluatedAlone

NextCompose ==
  \/ /\ evaluated = NotEvaluated
     /\ \E m1 \in ComposeMatrices, m2 \in ComposeMatrices : EvaluateMultiply(m1, m2)
  \/ /\ evaluated = NotEvaluated
     /\ \E transforms \in ComposeLists : EvaluateCompose(transforms)

SpecCompose == InitConfigure /\ [][NextCompose]_vars

\* Direct calls of matrixInvert on matrices of rationals, one in a run: the
\* call throws for the matrices of InvertBases that cannot be inverted
EvaluateInverse(m) ==
  /\ evaluated' = [op |-> "matrixInvert", m |-> m,
                   out |-> IF IsNotInvertible(m) THEN Threw ELSE Returned(matrixInvert(m))]
  /\ EvaluatedAlone

NextInverse ==
  /\ evaluated = NotEvaluated
  /\ \E m \in InvertBases : EvaluateInverse(m)

SpecInverse == InitConfigure /\ [][NextInverse]_vars

\* Direct calls of matrixRotate90, one turn and then the opposite turn
Opposite(direction) == IF direction = "cw" THEN "ccw" ELSE "cw"

EvaluateRotate(m, direction) ==
  /\ \E once \in {matrixRotate90(m, direction)} :
       evaluated' = [op |-> "matrixRotate90", m |-> m, direction |-> direction,
                     once |-> once, back |-> matrixRotate90(once, Opposite(direction))]
  /\ EvaluatedAlone

NextRotate ==
  /\ evaluated = NotEvaluated
  /\ \E m \in InvertBases, direction \in {"cw", "ccw"} : EvaluateRotate(m, direction)

SpecRotate == InitConfigure /\ [][NextRotate]_vars

\* Direct calls of fitSceneToViewport, one in a run: wide, tall and square
\* fields in both orientations, viewports with and without room for the
\* padding, and paddings below, at and above zero
FitFields == {<<100, 50>>, <<50, 100>>, <<60, 60>>, <<7, 3>>}

FitViewports ==
  {[width |-> 200, height |-> 200], [width |-> 300, height |-> 100],
   [width |-> 40, height |-> 90], [width |-> 10, height |-> 10],
   [width |-> 0, height |-> 0]}

FitPaddings == {-5, 0, 10, 25}

EvaluateFit(sc, vp, padding) ==
  /\ evaluated' = [op |-> "fitSceneToViewport", scene |-> sc, viewport |-> vp,
                   padding |-> padding, out |-> fitSceneToViewport(sc, vp, padding)]
  /\ EvaluatedAlone

NextFit ==
  /\ evaluated = NotEvaluated
  /\ \E f \in FitFields, o \in {"landscape", "portrait"}, vp \in FitViewports,
        padding \in FitPaddings :
       EvaluateFit(EngineSceneOf("scene-1", f[1], f[2], o), vp, padding)

SpecFit == InitConfigure /\ [][NextFit]_vars

\* Calls with identifiers the registry and the engine know and do not know:
\* tool ids on the registries above, layer ids on a live engine.
NextCallSites ==
  \/ \E id \in RegistryIds : SetActiveTool(id) /\ UNCHANGED historyPhase
  \/ \E r \in LayerCallbacks : RegisterLayerRenderer(r) /\ UNCHANGED hostVars
  \/ \E r \in LayerCallbacks : DisposeRenderer(r) /\ UNCHANGED hostVars
  \/ AnimationFrame /\ UNCHANGED hostVars

SpecCallSites == InitRegistry /\ [][NextCallSites]_vars

(***************************************************************************)
(* Hosts: history                                                          *)
(***************************************************************************)
\* C1: in the host with history batches a pointer gesture, from its `down` on,
\* adds at most one entry to the undo stack however many of its moves update
\* the scene, and that entry is the scene before the gesture's first mutation.
C1_OneEntryPerGesture ==
  (hostKind = "batching" /\ gesture.phase \in {"active", "ended"}) =>
     /\ Len(undoStack) - gesture.base <= 1
     /\ Len(undoStack) - gesture.base = 1 =>
          /\ gesture.first # <<>>
          /\ undoStack[Len(undoStack)] = gesture.first[1]

\* C2: after a complete gesture (down, moves with the button held, up) that
\* changed the scene from S to S', one undo restores exactly S and the redo
\* that follows it restores exactly S'.
C2_UndoRedoRestoreGesture ==
  [][ /\ (CompleteGesture(gesture, sceneSnapshot) /\ lastEvent'.kind = "undo")
           => sceneSnapshot' = gesture.first[1]
      /\ (gesture.phase = "undone" /\ lastEvent'.kind = "redo")
           => sceneSnapshot' = gesture.after ]_vars

\* C3: each history stack holds at most HISTORY_CAPACITY snapshots, and a push
\* onto a full undo stack drops its oldest entry; after n edits, k undos leave
\* the scene n - k edits ahead of the initial one as long as the undo stack
\* has entries, which are the last HISTORY_CAPACITY edits, and an undo on an
\* empty stack changes nothing (n = HISTORY_CAPACITY + 5: HISTORY_CAPACITY
\* undos end 5 edits ahead, and the next undo changes nothing).
C3_HistoryBounded ==
  /\ [](/\ Len(undoStack) <= HISTORY_CAPACITY
        /\ Len(redoStack) <= HISTORY_CAPACITY
        /\ historyPhase = "undos" =>
             /\ sceneSnapshot.tokens[1].x = edits - Len(redoStack)
             /\ Len(undoStack) + Len(redoStack) =
                  (IF edits < HISTORY_CAPACITY THEN edits ELSE HISTORY_CAPACITY))
  /\ [][ /\ (edits' = edits + 1 /\ Len(undoStack) = HISTORY_CAPACITY)
              => undoStack' = Append(Tail(undoStack), sceneSnapshot)
         /\ (historyPhase' = "undos" /\ undoStack = <<>>)
              => UNCHANGED <<sceneSnapshot, undoStack, redoStack>> ]_vars

\* HISTORY_CAPACITY + 5 edits, then HISTORY_CAPACITY undos: the undo stack is
\* used up and the token stands where the fifth edit put it.
C3_Witness ==
  /\ historyPhase = "undos"
  /\ lastEvent.kind = "undo"
  /\ edits = HISTORY_CAPACITY + 5
  /\ Len(redoStack) = HISTORY_CAPACITY
  /\ undoStack = <<>>
  /\ sceneSnapshot.tokens[1].x = 5

(***************************************************************************)
(* Tools: sessions of the pointers                                         *)
(***************************************************************************)
\* C4: with a creation tool (line, pen, arrow, cone) active, `cancel` removes
\* the drawing that the pointer's `down` added to the scene, and leaves a
\* shape that the `down` grabbed for editing either as it was before the
\* `down` or as the last update before the `cancel` left it.
C4_CancelDiscardsOrRestores ==
  [][ (lastEvent'.kind = "pointer" /\ lastEvent'.type = "cancel"
         /\ activeToolId \in {"line", "pen", "arrow", "cone"}) =>
        LET s == ptr[lastEvent'.pointerId]
        IN  /\ s.created => ~HasDrawing(sceneSnapshot', s.grabbed)
            /\ (~s.created /\ s.grabbed # NoId) =>
                  Shape(sceneSnapshot', s.grabbed) \in {s.atDown, s.latest} ]_vars

\* C5: with two pointers down in the same tool (select, line, pen, arrow,
\* cone), an event of one pointer leaves the token or shape that the other
\* pointer's `down` grabbed as it is, unless both grabbed the same one.
C5_PointersDoNotInterfere ==
  [][ (lastEvent'.kind = "pointer" /\ activeToolId # "eraser") =>
        \A q \in Pointers \ {lastEvent'.pointerId} :
          LET p == lastEvent'.pointerId
          IN  (/\ ptr[q].down
               /\ (ptr[p].down \/ lastEvent'.type = "down")
               /\ ptr[q].grabbed # NoId
               /\ ptr[p].grabbed # ptr[q].grabbed
               /\ ptr'[p].grabbed # ptr[q].grabbed)
              => Objects(sceneSnapshot', ptr[q].grabbed)
                   = Objects(sceneSnapshot, ptr[q].grabbed) ]_vars

\* C6: once a pointer's `up` or `cancel` has returned the tool to idle, a
\* `move` of that pointer does not change the scene, whatever buttons it
\* reports, until the pointer goes down again.
C6_IdleAfterRelease ==
  [][ (/\ lastEvent.kind = "pointer"
       /\ lastEvent.type \in {"up", "cancel"}
       /\ lastEvent'.kind = "pointer"
       /\ lastEvent'.type = "move"
       /\ lastEvent'.pointerId = lastEvent.pointerId)
      => sceneSnapshot' = sceneSnapshot ]_vars

(***************************************************************************)
(* CanvasEngine: redraw scheduling and transform modes                     *)
(***************************************************************************)
DprScaled(m) == composeTransforms(<<matrixScale(RInt(dpr)), m>>)

\* The step is the engine call op (lastCall names the call of every step).
Calls(op) == lastCall'.op = op

\* C7: at most one redraw is pending at any time; scheduleDraw() while one is
\* pending changes nothing, so the frame that follows k >= 1 scheduleDraw()
\* calls runs draw() exactly once and clears the request, and scheduleDraw()
\* with no request pending requests exactly one new frame.
C7_OneRedrawPerFrame ==
  /\ [](rafQueue <= 1 /\ ((rafHandle # 0) <=> (rafQueue = 1)))
  /\ [][ /\ (Calls("scheduleDraw") /\ rafHandle # 0)
              => UNCHANGED <<rafHandle, rafQueue>>
         /\ (Calls("animationFrame") /\ schedCalls >= 1)
              => (rendered'.draws = 1 /\ rafHandle' = 0 /\ rafQueue' = 0)
         /\ (Calls("scheduleDraw") /\ rafHandle = 0)
              => (rafHandle' # 0 /\ rafQueue' = 1) ]_vars

\* A frame has just run draw() once after two or more scheduleDraw() calls.
C7_Witness ==
  /\ lastCall.op = "animationFrame"
  /\ rendered.draws = 1
  /\ rendered.drew
  /\ rendered.requests >= 2

\* C8: the RenderState a scheduled redraw hands to the layer renderers holds
\* the scene and the transforms the engine has at that frame, also when they
\* were set after the redraw had been requested.
C8_RedrawUsesLatestState ==
  (rendered.draws > 0 /\ rendered.drew) =>
     /\ rendered.state.scene = engineScene
     /\ rendered.state.fieldToCanvas = fieldToCanvas
     /\ rendered.state.canvasToField = canvasToField
     /\ rendered.state.viewport = viewport

\* A frame handed a registered renderer a scene that was set while the frame
\* was already requested.
C8_Witness ==
  /\ lastCall.op = "animationFrame"
  /\ rendered.draws > 0
  /\ rendered.drew
  /\ rendered.stale
  /\ rendered.calls # <<>>
  /\ rendered.state.scene \in EngineScenes

\* C9: in custom mode resize and setScene leave fieldToCanvas, canvasToField
\* and the mode as they are; in auto mode, with a scene present, they set
\* fieldToCanvas to the fit transform of that scene and viewport.
C9_CustomTransformKept ==
  [][ /\ (transformMode = "custom" /\ (Calls("resize") \/ Calls("setScene")))
         => UNCHANGED <<fieldToCanvas, canvasToField, transformMode>>
      /\ (transformMode = "auto" /\ Calls("resize") /\ engineScene # NoScene)
         => /\ fieldToCanvas' = DprScaled(fitTransform(engineScene, viewport'))
            /\ transformMode' = "auto"
      /\ (transformMode = "auto" /\ Calls("setScene") /\ engineScene' # NoScene)
         => /\ fieldToCanvas' = DprScaled(fitTransform(engineScene', viewport))
            /\ transformMode' = "auto" ]_vars

\* The engine has just been resized in custom mode, to a viewport that the
\* kept transform was never fitted to.
C9_Witness ==
  /\ lastCall.op = "resize"
  /\ transformMode = "custom"
  /\ engineScene \in EngineScenes
  /\ viewport.width = 0
  /\ fieldToCanvas \in {DprScaled(m) : m \in TransformInputs}

\* C10 as stated: setTransform(m) always ends in custom mode with
\* fieldToCanvas = scale(dpr) . m and a redraw pending.
C10_SetTransformAlwaysCustom ==
  [][ Calls("setTransform") =>
        /\ transformMode' = "custom"
        /\ \E m \in TransformInputs : fieldToCanvas' = DprScaled(m)
        /\ rafHandle' # 0 ]_vars

\* C10: setTransform(m) with scale(dpr) . m invertible ends in custom mode with
\* fieldToCanvas = scale(dpr) . m, canvasToField its inverse and a redraw
\* pending; with a matrix that cannot be inverted it throws after fieldToCanvas
\* has been assigned, and canvasToField, the mode and the pending redraw stay
\* as they were.  autoFitScene() always ends in auto mode and, with a scene
\* set, with fieldToCanvas the fit transform of the current scene and viewport.
C10_SetTransformInvertible ==
  [][ /\ Calls("setTransform") =>
           \E m \in TransformInputs :
             /\ fieldToCanvas' = DprScaled(m)
             /\ IF IsNotInvertible(DprScaled(m))
                THEN /\ lastCall'.thrown
                     /\ UNCHANGED <<canvasToField, transformMode, rafHandle, rafQueue>>
                ELSE /\ ~lastCall'.thrown
                     /\ transformMode' = "custom"
                     /\ canvasToField' = matrixInvert(DprScaled(m))
                     /\ rafHandle' # 0
      /\ Calls("autoFitScene") =>
           /\ transformMode' = "auto"
           /\ engineScene # NoScene =>
                fieldToCanvas' = DprScaled(fitTransform(engineScene, viewport)) ]_vars

\* setTransform has just switched an engine with a device pixel ratio of 2
\* to custom mode.
C10_Witness ==
  /\ lastCall = Call("setTransform", FALSE)
  /\ transformMode = "custom"
  /\ dpr = 2
  /\ rafHandle # 0

\* C11: in every engine state canvasToField is the inverse of fieldToCanvas,
\* and a setTransform that throws on a matrix that cannot be inverted leaves
\* fieldToCanvas, canvasToField and the transform mode as they were.
C11_InverseKept ==
  /\ [](matrixMultiply(fieldToCanvas, canvasToField) = IDENTITY_MATRIX)
  /\ [][ (Calls("setTransform") /\ lastCall'.thrown)
           => UNCHANGED <<fieldToCanvas, canvasToField, transformMode>> ]_vars

(***************************************************************************)
(* EraserTool                                                              *)
(***************************************************************************)
\* lastEvent' names an erase event: a `down`, or a `move` with a button held
EraseEvent ==
  /\ lastEvent'.kind = "pointer"
  /\ activeToolId = "eraser"
  /\ lastEvent'.type = "down" \/ (lastEvent'.type = "move" /\ lastEvent'.buttons > 0)

\* the erase circle around `at` (eraser radius + half the stroke width of d)
\* holds a point of drawing d
Touches(d, at) ==
  LET r == EraserRadius + d.size \div 2
  IN  IF Len(d.pts) = 1 THEN Within(d.pts[1], at, r)
      ELSE \E i \in 2..Len(d.pts) : SegmentWithin(at, d.pts[i - 1], d.pts[i], r)

\* C12: an erase event whose erase circle holds no point of any drawing leaves
\* scene.drawings as it was (same drawings, ids, points and order) and emits no
\* `erase` event.
C12_EraseMissIsNoOp ==
  [][ (/\ EraseEvent
       /\ \A i \in 1..Len(sceneSnapshot.drawings) :
            ~Touches(sceneSnapshot.drawings[i], lastEvent'.point))
        => (/\ sceneSnapshot'.drawings = sceneSnapshot.drawings
            /\ emitted' = <<>>) ]_vars

\* drawing e is what an erase left of drawing d: d itself or a piece split off
FragmentOf(e, d) ==
  \/ e.id = d.id
  \/ (Len(e.id) = 3 /\ e.id[1] = "split" /\ e.id[2] = d.id)

\* the erase circle around `at` holds both points of the two-point polyline d
Covered(d, at) ==
  /\ d.kind \in {"pen", "line"}
  /\ Len(d.pts) = 2
  /\ \A j \in 1..2 : Within(d.pts[j], at, EraserRadius + d.size \div 2)

\* C13: an erase event whose erase circle covers both points of a two-point
\* polyline drawing removes that drawing completely (no fragment of it stays
\* in scene.drawings) and emits `erase`.
C13_CoveredIsRemoved ==
  [][ EraseEvent =>
        \A i \in 1..Len(sceneSnapshot.drawings) :
          Covered(sceneSnapshot.drawings[i], lastEvent'.point)
            => (/\ \A k \in 1..Len(sceneSnapshot'.drawings) :
                     ~FragmentOf(sceneSnapshot'.drawings[k], sceneSnapshot.drawings[i])
                /\ emitted' = <<[kind |-> "erase"]>>) ]_vars

\* the midpoint of the sub-segment a-b lies outside the circle of radius r
\* around c.  A cut point lies on the circle: the piece from the start of the
\* cut segment to the root t1, or from the root t2 to its end, stays outside
\* when that start or end does; the chord between two cut points runs inside.
MidpointOutside(a, b, c, r) ==
  IF Len(a) = 2 /\ Len(b) = 2
  THEN ((a[1] + b[1] - 2 * c[1]) * (a[1] + b[1] - 2 * c[1])
        + (a[2] + b[2] - 2 * c[2]) * (a[2] + b[2] - 2 * c[2])) * 10000 > 4 * r * r
  ELSE IF Len(a) = 2
  THEN b = CutPoint(a, b[3], c, r, 1) /\ ~Within(a, c, r)
  ELSE IF Len(b) = 2
  THEN a = CutPoint(a[2], b, c, r, 2) /\ ~Within(b, c, r)
  ELSE FALSE

\* C14: an erase event replaces every pen and line drawing whose polyline
\* crosses the erase circle by fragments with new ids (none, one or several),
\* and every sub-segment of a fragment has its midpoint outside the circle.
C14_CrossedIsClipped ==
  [][ EraseEvent =>
        \A i \in 1..Len(sceneSnapshot.drawings) :
          LET d == sceneSnapshot.drawings[i]
              at == lastEvent'.point
          IN  (d.kind \in {"pen", "line"} /\ Len(d.pts) >= 2 /\ Touches(d, at))
                => \A k \in 1..Len(sceneSnapshot'.drawings) :
                     LET e == sceneSnapshot'.drawings[k]
                     IN  /\ e.id # d.id
                         /\ FragmentOf(e, d)
                              => \A j \in 2..Len(e.pts) :
                                   MidpointOutside(e.pts[j - 1], e.pts[j], at,
                                                   EraserRadius + d.size \div 2) ]_vars

(***************************************************************************)
(* PenTool                                                                 *)
(***************************************************************************)
\* lastEvent' names a sample of a stroke in progress: a `move` with a button
\* held by a pointer that is down and whose stroke is on the board
PenSample ==
  /\ lastEvent'.kind = "pointer"
  /\ activeToolId = "pen"
  /\ lastEvent'.type = "move"
  /\ lastEvent'.buttons > 0
  /\ ptr[lastEvent'.pointerId].down
  /\ HasDrawing(sceneSnapshot, penTool.activeStrokeIds[lastEvent'.pointerId])

\* C15: a sample of a pen stroke is appended to the stroke exactly when it lies
\* at least the minimum distance (0.35 x visual scale) from the last point of
\* the stroke; a rejected sample changes neither the scene nor the pen's
\* reference point; consecutive points of a pen drawing are never closer than
\* the minimum distance.
C15_PenDecimation ==
  /\ [](activeToolId = "pen" =>
          \A i \in 1..Len(sceneSnapshot.drawings) :
            \A j \in 2..Len(sceneSnapshot.drawings[i].pts) :
              ~Below(sceneSnapshot.drawings[i].pts[j - 1],
                     sceneSnapshot.drawings[i].pts[j], PenMinDistance))
  /\ [][ PenSample =>
           LET id == penTool.activeStrokeIds[lastEvent'.pointerId]
               stroke == DrawingById(sceneSnapshot, id)
               pt == lastEvent'.point
           IN  IF Below(pt, stroke.pts[Len(stroke.pts)], PenMinDistance)
               THEN UNCHANGED <<sceneSnapshot, registryScene, undoStack, redoStack,
                                pendingHistorySnapshot, pendingHistoryDirty, penTool>>
               ELSE sceneSnapshot'.drawings =
                      MapSeq(sceneSnapshot.drawings,
                             LAMBDA d : IF d.id = id
                                        THEN [d EXCEPT !.pts = Append(@, pt)] ELSE d) ]_vars

\* a stroke from (5,5) to (7,5) whose pointer, still down, was last sampled at
\* (6,5): a sample that was rejected
C15_Witness ==
  /\ activeToolId = "pen"
  /\ ptr[1].down
  /\ lastEvent.kind = "pointer"
  /\ lastEvent.type = "move"
  /\ lastEvent.point = Pt(6, 5)
  /\ HasDrawing(sceneSnapshot, penTool.activeStrokeIds[1])
  /\ DrawingById(sceneSnapshot, penTool.activeStrokeIds[1]).pts = <<Pt(5, 5), Pt(7, 5)>>

(***************************************************************************)
(* LineTool and ArrowTool: the end of a creation gesture                   *)
(***************************************************************************)
\* a line or arrow whose two end points are less than 0.35 apart
Degenerate(d) ==
  /\ d.kind \in {"line", "arrow"}
  /\ Len(d.pts) = 2
  /\ Below(d.pts[1], d.pts[2], 35)

\* C16: after the `up` of a pointer whose `down` created a line or an arrow,
\* that shape is not in the scene when its end points are within the epsilon
\* of each other.
C16_DegenerateDiscarded ==
  [][ (/\ lastEvent'.kind = "pointer"
       /\ lastEvent'.type = "up"
       /\ activeToolId \in {"line", "arrow"}
       /\ ptr[lastEvent'.pointerId].created)
        => \A k \in 1..Len(sceneSnapshot'.drawings) :
             sceneSnapshot'.drawings[k].id = ptr[lastEvent'.pointerId].grabbed
               => ~Degenerate(sceneSnapshot'.drawings[k]) ]_vars

(***************************************************************************)
(* SelectTool                                                              *)
(***************************************************************************)
\* lastEvent' names an event of that type handled by the select tool
SelectEvent(type) ==
  /\ lastEvent'.kind = "pointer"
  /\ activeToolId = "select"
  /\ lastEvent'.type = type

\* the lines with a handle at p, the tokens at p, the lines and strokes whose
\* body is at p, by their place in the scene
HandleHits(sc, p) ==
  {i \in 1..Len(sc.drawings) :
     /\ sc.drawings[i].kind = "line"
     /\ \/ Within(sc.drawings[i].pts[1], p, LINE_HANDLE_RADIUS)
        \/ Within(sc.drawings[i].pts[Len(sc.drawings[i].pts)], p, LINE_HANDLE_RADIUS)}

TokenHits(sc, p) ==
  {i \in 1..Len(sc.tokens) :
     Within(Pt(sc.tokens[i].x, sc.tokens[i].y), p, TOKEN_HIT_RADIUS)}

BodyHits(sc, p) ==
  {i \in 1..Len(sc.drawings) :
     isPointNearLine(sc.drawings[i].pts, p, sc.drawings[i].size)}

Topmost(hits) == CHOOSE i \in hits : \A j \in hits : j <= i

\* C17: a `down` of the select tool takes hold of a drawing handle before a
\* token and of a token before a drawing body, of the topmost drawing among
\* the handles hit and among the bodies hit; a `down` that hits nothing clears
\* the selection and the drag state and leaves the scene alone.  (Where the
\* delete icon of a drawing lies is not told by the tool, so the icon is not
\* part of this statement.)
C17_DownPriority ==
  [][ SelectEvent("down") =>
        LET sc == sceneSnapshot
            p == lastEvent'.point
            handles == HandleHits(sc, p)
            tokens == TokenHits(sc, p)
            bodies == BodyHits(sc, p)
        IN  IF handles # {}
            THEN /\ selectTool'.selected =
                      [type |-> "drawing", id |-> sc.drawings[Topmost(handles)].id]
                 /\ selectTool'.dragState.mode = "line-handle"
                 /\ selectTool'.dragState.id = sc.drawings[Topmost(handles)].id
            ELSE IF tokens # {}
            THEN /\ selectTool'.selected.type = "token"
                 /\ \E i \in tokens : selectTool'.selected.id = sc.tokens[i].id
                 /\ selectTool'.dragState.mode = "token"
            ELSE IF bodies # {}
            THEN selectTool'.selected =
                   [type |-> "drawing", id |-> sc.drawings[Topmost(bodies)].id]
            ELSE /\ selectTool'.selected = NoTarget
                 /\ selectTool'.dragState = NoDrag
                 /\ sceneSnapshot' = sceneSnapshot ]_vars

\* C18: a `move` of the select tool with no button held leaves the scene and
\* the history alone; it emits `hover` with the target under the pointer when
\* that target is not the hovered one (another type, id or handle, or none
\* against some), and nothing when it is.  Over a token and no handle the
\* target is that token, over nothing it is no target.
C18_HoverOnChange ==
  [][ (SelectEvent("move") /\ lastEvent'.buttons = 0) =>
        LET p == lastEvent'.point
            target == findHoverTarget(sceneSnapshot, p, selectTool.selected)
        IN  /\ UNCHANGED <<sceneSnapshot, registryScene, undoStack, redoStack>>
            /\ selectTool'.hovered = target
            /\ emitted' = IF target # selectTool.hovered
                          THEN <<[kind |-> "hover", target |-> target]>> ELSE <<>>
            /\ (HandleHits(sceneSnapshot, p) = {} /\ TokenHits(sceneSnapshot, p) # {})
                 => /\ target.type = "token"
                    /\ \E i \in TokenHits(sceneSnapshot, p) :
                         target.id = sceneSnapshot.tokens[i].id
            /\ (/\ HandleHits(sceneSnapshot, p) = {}
                /\ TokenHits(sceneSnapshot, p) = {}
                /\ BodyHits(sceneSnapshot, p) = {})
                 => target = NoTarget ]_vars

\* the pointer moved from (10,40) to (12,40) over token A: the second move
\* emitted nothing
C18_Witness ==
  /\ activeToolId = "select"
  /\ lastEvent.kind = "pointer"
  /\ lastEvent.type = "move"
  /\ lastEvent.buttons = 0
  /\ lastEvent.point = Pt(12, 40)
  /\ selectTool.hovered = [type |-> "token", id |-> <<"A">>]
  /\ emitted = <<>>

\* C19: a `down` of the select tool on a token keeps the pointer's offset from
\* the token; while the token is grabbed every `move` with a button held puts
\* the token at the pointer's point minus that offset, leaves the other tokens
\* and the drawings alone and emits `drag`; the `up` that follows emits
\* `release` for the token.
C19_TokenDrag ==
  [][ /\ (SelectEvent("down") /\ selectTool'.dragState.mode = "token")
           => LET token == TokenById(sceneSnapshot, selectTool'.dragState.id)
              IN  selectTool'.dragState.offset =
                    Pt(lastEvent'.point[1] - token.x, lastEvent'.point[2] - token.y)
      /\ (/\ SelectEvent("move")
          /\ lastEvent'.buttons > 0
          /\ selectTool.dragState.mode = "token")
           => LET state == selectTool.dragState
                  p == lastEvent'.point
              IN  /\ sceneSnapshot'.tokens =
                       MapSeq(sceneSnapshot.tokens,
                              LAMBDA t : IF t.id = state.id
                                         THEN [t EXCEPT !.x = p[1] - state.offset[1],
                                                        !.y = p[2] - state.offset[2]]
                                         ELSE t)
                  /\ sceneSnapshot'.drawings = sceneSnapshot.drawings
                  /\ selectTool'.dragState = state
                  /\ emitted' = <<[kind |-> "drag",
                                   target |-> [type |-> "token", id |-> state.id]]>>
      /\ (SelectEvent("up") /\ selectTool.dragState.mode = "token")
           => /\ sceneSnapshot' = sceneSnapshot
              /\ emitted' = <<[kind |-> "release",
                               target |-> [type |-> "token",
                                           id |-> selectTool.dragState.id]]>> ]_vars

\* token A, grabbed 2 beside its centre, after its second move: it lies 2
\* beside the pointer at (80,45)
C19_Witness ==
  /\ activeToolId = "select"
  /\ selectTool.dragState.mode = "token"
  /\ selectTool.dragState.offset = Pt(2, 0)
  /\ edits = 2
  /\ lastEvent.type = "move"
  /\ lastEvent.point = Pt(80, 45)
  /\ TokenById(sceneSnapshot, <<"A">>).x = 78
  /\ TokenById(sceneSnapshot, <<"A">>).y = 45

(***************************************************************************)
(* tools-draw: DrawToolRegistry                                            *)
(***************************************************************************)
\* the tools registered under the active id
ActiveTools == {i \in DOMAIN registryTools : registryTools[i].id = activeToolId}

\* handlePointer ran the handler of no tool but the active one
OnlyActiveHandled ==
  /\ activeToolId # "select" => selectTool' = selectTool
  /\ activeToolId # "line" => lineTool' = lineTool
  /\ activeToolId # "pen" => penTool' = penTool
  /\ activeToolId # "arrow" => arrowTool' = arrowTool
  /\ activeToolId # "cone" => coneTool' = coneTool
  /\ "handlePointer" \notin ToolOf(registryTools, activeToolId).hooks
       => /\ UNCHANGED <<sceneSnapshot, registryScene, selectTool, lineTool, penTool,
                         arrowTool, coneTool>>
          /\ emitted' = <<>>

\* setActiveTool(id) made id the active tool, after deactivate of the tool that
\* was active and before activate of id, and did nothing for the active id
Activated(id) ==
  /\ activeToolId' = id
  /\ UNCHANGED <<engineVars, sceneSnapshot, registryScene, registryTools, undoStack,
                 redoStack, selectTool, lineTool, penTool, arrowTool, coneTool>>
  /\ id = activeToolId => calls' = <<>>
  /\ id # activeToolId =>
       calls' = (IF "deactivate" \in ToolOf(registryTools, activeToolId).hooks
                 THEN <<[hook |-> "deactivate", tool |-> activeToolId,
                         active |-> activeToolId]>>
                 ELSE <<>>)
                \o (IF "activate" \in ToolOf(registryTools, id).hooks
                    THEN <<[hook |-> "activate", tool |-> id, active |-> id]>>
                    ELSE <<>>)

\* C20: the registry has exactly one active tool at every moment, at first the
\* first registered tool; handlePointer runs the handler of the active tool
\* alone; setActiveTool(id) of a registered id makes id the active tool,
\* deactivating the tool that was active first, and does nothing when id is
\* the active tool already.
C20_OneActiveTool ==
  /\ (registryTools # <<>> /\ activeToolId = registryTools[1].id)
  /\ [](Cardinality(ActiveTools) = 1)
  /\ [][ /\ lastEvent'.kind = "pointer" => OnlyActiveHandled
         /\ (/\ lastEvent'.kind = "setActiveTool"
             /\ ToolOf(registryTools, lastEvent'.id) # NoTool)
              => Activated(lastEvent'.id) ]_vars

(***************************************************************************)
(* Unknown identifiers                                                     *)
(***************************************************************************)
\* the renderers the engine holds, on any layer
HeldRenderers ==
  UNION {{layerRenderers[l][i] : i \in 1..Len(layerRenderers[l])} :
           l \in DOMAIN layerRenderers}

\* C21: setActiveTool with an id that is not registered throws and leaves the
\* active tool, the tools and the scene as they were, calling no hook;
\* registerLayerRenderer with a layer id the engine does not have throws,
\* registers nothing and requests no frame.
C21_UnknownIdRejected ==
  [][ /\ \A id \in RegistryIds :
           (ToolOf(registryTools, id) = NoTool /\ SetActiveTool(id))
             => /\ lastEvent'.threw
                /\ calls' = <<>>
                /\ UNCHANGED <<activeToolId, registryTools, sceneSnapshot, registryScene,
                               selectTool, lineTool, penTool, arrowTool, coneTool>>
      /\ \A r \in LayerCallbacks :
           (LayerOf(r) \notin LayerIds /\ RegisterLayerRenderer(r))
             => /\ lastCall'.thrown
                /\ UNCHANGED <<layerRenderers, rafHandle, rafQueue>>
                /\ r \notin HeldRenderers' ]_vars

\* both calls were rejected on a registry with an active tool and an engine
\* that holds a renderer
C21_Witness ==
  /\ lastEvent.kind = "setActiveTool"
  /\ lastEvent.threw
  /\ ToolOf(registryTools, activeToolId) # NoTool
  /\ lastCall = Call("registerLayerRenderer", TRUE)
  /\ HeldRenderers = {"gridRenderer"}

\* C22: the registry of a host, constructed without a list of tools, lists
\* exactly the tools select, pen, arrow, cone and eraser, in that order.
C22_DefaultToolSet ==
  MapSeq(listTools(registryTools), LAMBDA tool : tool.id)
    = <<"select", "pen", "arrow", "cone", "eraser">>

(***************************************************************************)
(* Scene: ids                                                              *)
(***************************************************************************)
\* C23: after any sequence of tool operations the drawing ids of the scene
\* are pairwise distinct and so are its token ids.
C23_IdsDistinct ==
  /\ \A i, j \in 1..Len(sceneSnapshot.drawings) :
       sceneSnapshot.drawings[i].id = sceneSnapshot.drawings[j].id => i = j
  /\ \A i, j \in 1..Len(sceneSnapshot.tokens) :
       sceneSnapshot.tokens[i].id = sceneSnapshot.tokens[j].id => i = j

(***************************************************************************)
(* Scene: lastUpdatedAt                                                    *)
(***************************************************************************)
\* C24: lastUpdatedAt of the host's current scene never decreases, whatever
\* replaces the scene.
C24_LastUpdatedAtMonotonic ==
  [][sceneSnapshot'.lastUpdatedAt >= sceneSnapshot.lastUpdatedAt]_vars

(***************************************************************************)
(* core-engine: draw() and the layer renderers                             *)
(***************************************************************************)
\* position of a renderer's layer in the engine's order of layers
LayerIndex(r) == CHOOSE i \in 1..Len(layerOrder) : layerOrder[i] = LayerOf(r)

\* position of renderer r among the renderers registered on its layer
Registered(r) ==
  CHOOSE i \in 1..Len(layerRenderers[LayerOf(r)]) : layerRenderers[LayerOf(r)][i] = r

\* C25: each draw() clears the surface before it calls any renderer, and calls
\* the registered renderers layer by layer in the order background, drawings,
\* tokens, overlay, each renderer exactly once, the renderers of one layer in
\* the order of their registration; a renderer that was disposed is not
\* registered and is not called again.
C25_DrawOrder ==
  /\ [](rendered.draws > 0 =>
          /\ rendered.trace[1].op = "save"
          /\ rendered.trace[2].op = "clearRect"
          /\ \A i \in 1..Len(rendered.trace) :
               rendered.trace[i].op = "clearRect" => i = 2
          /\ {rendered.calls[i] : i \in 1..Len(rendered.calls)} = HeldRenderers
          /\ \A i, j \in 1..Len(rendered.calls) :
               /\ rendered.calls[i] = rendered.calls[j] => i = j
               /\ i < j => \/ LayerIndex(rendered.calls[i]) < LayerIndex(rendered.calls[j])
                           \/ /\ LayerOf(rendered.calls[i]) = LayerOf(rendered.calls[j])
                              /\ Registered(rendered.calls[i]) < Registered(rendered.calls[j]))
  /\ [][\A r \in PaintCallbacks : DisposeRenderer(r) => r \notin HeldRenderers']_vars

\* a frame drew the grid before the background, which was registered after
\* it, and then the drawings, which were registered first
C25_Witness ==
  /\ lastCall.op = "animationFrame"
  /\ rendered.draws = 1
  /\ rendered.calls = <<"gridRenderer", "backgroundRenderer", "drawingsRenderer">>
  /\ layerRenderers["drawings"] = <<"drawingsRenderer">>

\* C26: every renderer is handed the context in the state the engine set up
\* for its layer, whatever the renderers before it did to the style and the
\* transform, on other layers and on its own.
C26_RendererIsolation ==
  rendered.draws > 0 =>
    \A i \in 1..Len(rendered.trace) :
      rendered.trace[i].op = "render" =>
        rendered.trace[i].saw = [fillStyle |-> "default", transform |-> <<"fieldToCanvas">>]

\* C27: a renderer that throws during draw() is isolated: draw() does not
\* throw, the other registered renderers all run in that draw, and a
\* scheduleDraw() after it requests a frame.
C27_ThrowIsolated ==
  /\ [](rendered.draws > 0 =>
          /\ ~rendered.threw
          /\ {rendered.calls[i] : i \in 1..Len(rendered.calls)} = HeldRenderers)
  /\ [][(lastCall'.op = "scheduleDraw" /\ rendered.draws > 0) => rafHandle' # 0]_vars

\* the numeric setting of each configurable tool
NumericSettings(settings) ==
  [select |-> settings.select.tokenRadius, line |-> settings.line.width,
   pen |-> settings.pen.width, arrow |-> settings.arrow.width,
   eraser |-> settings.eraser.radius]

\* the property of the config that carries the numeric setting of tool id
NumericKey(id) ==
  CASE id = "select" -> "tokenRadius"
    [] id = "eraser" -> "radius"
    [] OTHER -> "width"

\* C28: configureTool never throws and every setting stays inside its range:
\* eraser radius in [1, 12], pen and arrow width in [0.5, 12], line width in
\* [0.4, 10], token radius of the select tool at least 0.5; a negative radius
\* becomes the minimum; a config that is not an object, or whose value is not
\* a finite number, leaves every numeric setting as it was.
C28_ConfigureClamps ==
  /\ [](lastEvent.kind = "configureTool" => ~lastEvent.threw)
  /\ [](/\ toolSettings.eraser.radius >= 100 /\ toolSettings.eraser.radius <= 1200
        /\ toolSettings.pen.width >= 50 /\ toolSettings.pen.width <= 1200
        /\ toolSettings.arrow.width >= 50 /\ toolSettings.arrow.width <= 1200
        /\ toolSettings.line.width >= 40 /\ toolSettings.line.width <= 1000
        /\ toolSettings.select.tokenRadius >= 50)
  /\ [][\A id \in ConfigureIds, config \in Configs :
          ConfigureTool(id, config, MaxConfigures) =>
            /\ (IsObject(config) /\ Property(config, "radius") = JsNumber(-500)
                  /\ id = "eraser") => toolSettings'.eraser.radius = 100
            /\ (IsObject(config) /\ Property(config, "tokenRadius") = JsNumber(-500)
                  /\ id = "select") => toolSettings'.select.tokenRadius = 50
            /\ (~IsObject(config) \/ ~IsFiniteNumber(Property(config, NumericKey(id))))
                 => NumericSettings(toolSettings') = NumericSettings(toolSettings)]_vars

\* the second call configured the eraser with radius -5, and the eraser holds
\* the minimum radius 1
C28_Witness ==
  /\ lastEvent.kind = "configureTool"
  /\ lastEvent.id = "eraser"
  /\ lastEvent.config = JsObject("radius", JsNumber(-500))
  /\ configured = 2
  /\ toolSettings.eraser.radius = 100

\* the determinant of the matrix of a call of matrixInvert is zero or below
\* 2^-52 in magnitude: that of base is zero, or below 2^(-52 - 2 * exp)
TinyDeterminant(base, exp) ==
  \/ matrixDeterminant(base)[1] = 0
  \/ /\ 0 - 52 - 2 * exp >= 0
     /\ RLess(RAbs(matrixDeterminant(base)), RInt(Pow2(0 - 52 - 2 * exp)))

\* C29: matrixInvert throws for every matrix whose determinant is zero or
\* below Number.EPSILON in magnitude, and returns no matrix in its place,
\* the identity included; for every other matrix it returns a matrix.
C29_InvertFails ==
  evaluated.op = "matrixInvert" =>
    IF TinyDeterminant(evaluated.base, evaluated.exp)
    THEN evaluated.out.threw /\ evaluated.out.value = NoMatrix
    ELSE ~evaluated.out.threw /\ evaluated.out.value # NoMatrix

\* matrixInvert threw for a matrix of determinant 3 * 2^-54
C29_Witness ==
  /\ evaluated.op = "matrixInvert"
  /\ evaluated.exp = -27
  /\ matrixDeterminant(evaluated.base) = RInt(3)
  /\ evaluated.out.threw

\* the transforms of a list applied to p, the last one first
RECURSIVE ApplyLastFirst(_, _)
ApplyLastFirst(transforms, p) ==
  IF transforms = <<>> THEN p
  ELSE matrixApplyToPoint(Head(transforms), ApplyLastFirst(Tail(transforms), p))

\* C30: matrixMultiply(m1, m2) applied to a point is m1 applied to what m2
\* makes of the point, and composeTransforms of a list applied to a point
\* applies the last transform of the list first and the first one last.
C30_ComposeOrder ==
  /\ evaluated.op = "matrixMultiply" =>
       \A p \in ComposePoints :
         matrixApplyToPoint(evaluated.out, p)
           = matrixApplyToPoint(evaluated.m1, matrixApplyToPoint(evaluated.m2, p))
  /\ evaluated.op = "composeTransforms" =>
       \A p \in ComposePoints :
         matrixApplyToPoint(evaluated.out, p) = ApplyLastFirst(evaluated.transforms, p)

\* three transforms were composed for which the order matters: applied the
\* first one first they take a point elsewhere
C30_Witness ==
  /\ evaluated.op = "composeTransforms"
  /\ Len(evaluated.transforms) = 3
  /\ \E p \in ComposePoints :
       matrixApplyToPoint(evaluated.out, p)
         # matrixApplyToPoint(evaluated.transforms[3],
             matrixApplyToPoint(evaluated.transforms[2],
               matrixApplyToPoint(evaluated.transforms[1], p)))

C32_RotateRoundTrip ==
  evaluated.op = "matrixRotate90" => evaluated.back = evaluated.m

\* a matrix that the quarter turn changes was turned clockwise and back
C32_Witness ==
  /\ evaluated.op = "matrixRotate90"
  /\ evaluated.direction = "cw"
  /\ evaluated.once # evaluated.m
  /\ evaluated.once.a = evaluated.m.c
  /\ evaluated.back = evaluated.m

RLeq(p, q) == ~RLess(q, p)

\* the corners of the field of a scene
FieldCorners(sc) ==
  {[x |-> RInt(x), y |-> RInt(y)] : x \in {0, sc.field.width}, y \in {0, sc.field.height}}

\* The transform m puts the field of sc, as wide and high as its orientation
\* makes it, into the viewport: scaled by min((W - 2p) / w, (H - 2p) / h),
\* centred, every corner inside [p, W - p] x [p, H - p] and at non-negative
\* coordinates
FitsWithPadding(m, sc, vp, p) ==
  LET w == IF sc.orientation = "portrait" THEN sc.field.height ELSE sc.field.width
      h == IF sc.orientation = "portrait" THEN sc.field.width ELSE sc.field.height
      scale == RMin(Rat(vp.width - 2 * p, w), Rat(vp.height - 2 * p, h))
      images == {matrixApplyToPoint(m, c) : c \in FieldCorners(sc)}
      left == RDiv(RSub(RInt(vp.width), RMul(RInt(w), scale)), RInt(2))
      top == RDiv(RSub(RInt(vp.height), RMul(RInt(h), scale)), RInt(2))
  IN  /\ \A q \in images :
           /\ RLeq(RInt(p), q.x) /\ RLeq(q.x, RInt(vp.width - p))
           /\ RLeq(RInt(p), q.y) /\ RLeq(q.y, RInt(vp.height - p))
           /\ RLeq(RZero, q.x) /\ RLeq(RZero, q.y)
      /\ {q.x : q \in images} = {left, RSub(RInt(vp.width), left)}
      /\ {q.y : q \in images} = {top, RSub(RInt(vp.height), top)}

\* the scenario: field 100 x 50, landscape, viewport 200 x 200, padding 10
FitScenario ==
  fitSceneToViewport(EngineSceneOf("scene-1", 100, 50, "landscape"),
                     [width |-> 200, height |-> 200], 10)
    = Mat(<<9, 5>>, RZero, RZero, <<9, 5>>, RInt(10), RInt(55))

\* C33 as stated: for every scene, viewport and padding the result of
\* fitSceneToViewport scales the orientation-adjusted field by
\* min((W - 2p) / w, (H - 2p) / h) and centres it, every corner inside
\* [p, W - p] x [p, H - p] at non-negative coordinates; the scenario gives
\* a = d = 1.8, tx = 10, ty = 55.
C33_FitInsidePadding ==
  /\ FitScenario
  /\ evaluated.op = "fitSceneToViewport" =>
       FitsWithPadding(evaluated.out, evaluated.scene, evaluated.viewport,
                       evaluated.padding)

\* C33, amended: the same for a padding that is not negative and leaves at
\* least one unit of the viewport free in each direction.
C33_FitInsidePaddingWithRoom ==
  /\ FitScenario
  /\ (/\ evaluated.op = "fitSceneToViewport"
      /\ evaluated.padding >= 0
      /\ evaluated.viewport.width - 2 * evaluated.padding >= 1
      /\ evaluated.viewport.height - 2 * evaluated.padding >= 1) =>
       FitsWithPadding(evaluated.out, evaluated.scene, evaluated.viewport,
                       evaluated.padding)

\* a portrait field was fitted into a viewport with room for the padding
C33_Witness ==
  /\ evaluated.op = "fitSceneToViewport"
  /\ evaluated.scene.orientation = "portrait"
  /\ evaluated.scene.field = [width |-> 100, height |-> 50]
  /\ evaluated.viewport = [width |-> 300, height |-> 100]
  /\ evaluated.padding = 10
  /\ evaluated.out.b = <<4, 5>>

(***************************************************************************)
(* C34: pointer handlers of the engine                                     *)
(***************************************************************************)
HandlersOf(handlers, type) == {handlers[type][i] : i \in 1..Len(handlers[type])}

\* client - canvas origin, times k
ScaledOffset(client, origin, k) ==
  [x |-> RMul(RSub(client.x, origin.x), RInt(k)),
   y |-> RMul(RSub(client.y, origin.y), RInt(k))]

\* every handler the engine held for the event's type was called once, no
\* other handler was called, and each call got the points of the event
DeliveredTo(d, handlers, toField, ratio) ==
  /\ \A h \in PointerHandlerIds :
       Cardinality({i \in 1..Len(d.calls) : d.calls[i].handler = h})
         = IF h \in HandlersOf(handlers, d.type) THEN 1 ELSE 0
  /\ \A i \in 1..Len(d.calls) :
       /\ d.calls[i].context.type = d.type
       /\ d.calls[i].context.canvasPoint = ScaledOffset(d.client, d.origin, ratio)
       /\ d.calls[i].context.fieldPoint =
            matrixApplyToPoint(toField, ScaledOffset(d.client, d.origin, ratio))

\* C34: a canvas pointer event of a type calls every handler registered for
\* that type once, with canvasPoint = (client - canvas origin) * dpr and
\* fieldPoint = canvasToField(canvasPoint), and calls no handler whose dispose
\* function has removed it; after setTransform(M) the field point of every
\* client point is M^-1(client - canvas origin), whatever the device pixel
\* ratio.
C34_PointerDelivery ==
  [][/\ lastCall'.op = "dispatchPointer" =>
          DeliveredTo(dispatched', pointerHandlers, canvasToField, dpr)
     /\ \A m \in TransformInputs :
          (SetTransform(m) /\ ~lastCall'.thrown) =>
            \A e \in EventPlaces :
              matrixApplyToPoint(canvasToField', ScaledOffset(e.client, e.origin, dpr'))
                = matrixApplyToPoint(matrixInvert(m), ScaledOffset(e.client, e.origin, 1))
     /\ \A r \in Registrations :
          DisposePointer(r.type, r.handler) =>
            r.handler \notin HandlersOf(pointerHandlers', r.type)
    ]_vars

\* at device pixel ratio 2 and under a custom transform, a pointer-down at
\* client (150, 200) on a canvas at (50, 100) was handed to the one handler
\* left for "down" after the other was disposed: canvas point (200, 200),
\* and a field point other than the canvas point
C34_Witness ==
  /\ lastCall.op = "dispatchPointer"
  /\ dpr = 2
  /\ transformMode = "custom"
  /\ dispatched.type = "down"
  /\ dispatched.client = RPt(150, 200)
  /\ dispatched.origin = RPt(50, 100)
  /\ Len(dispatched.calls) = 1
  /\ dispatched.calls[1].handler = "probeHandler"
  /\ dispatched.calls[1].context.canvasPoint = RPt(200, 200)
  /\ dispatched.calls[1].context.fieldPoint # RPt(200, 200)
  /\ HandlersOf(pointerHandlers, "move") = {"probeHandler"}

(***************************************************************************)
(* C35, C36: ToastService                                                  *)
(***************************************************************************)
\* ToastService.toast: computed(() => this.queue()[0] ?? null)
HasVisibleToast == toastQueue # <<>>

VisibleToast == Head(toastQueue)

\* the queue holds the toasts in the order of their show() calls
InShowOrder ==
  \A i, j \in 1..Len(toastQueue) : i < j => toastQueue[i].uid < toastQueue[j].uid

\* a pending timeout is the one of the visible toast, with that toast's duration
TimerOnlyForHead ==
  toastTimer # NoTimer =>
    /\ HasVisibleToast
    /\ toastTimer.id = VisibleToast.id
    /\ toastTimer.durationMs = VisibleToast.durationMs
    /\ VisibleToast.durationMs > 0

\* a timeout that fires removes the visible toast and nothing else, and the
\* toast behind it is visible with a timer of its own duration started then
ExpiryHandsOver ==
  toastLog'.op = "timeout" =>
    /\ toastTimer.elapsed = toastTimer.durationMs
    /\ toastLog'.removed = <<VisibleToast>>
    /\ toastQueue' = Tail(toastQueue)
    /\ (toastQueue' # <<>> /\ Head(toastQueue').durationMs > 0) =>
         toastTimer' = [id |-> Head(toastQueue').id,
                        durationMs |-> Head(toastQueue').durationMs,
                        elapsed |-> 0]

IsVisible(u) == HasVisibleToast /\ VisibleToast.uid = u

ExplicitDismissals == {"dismiss", "dismissById", "clearAll"}

\* a toast with actions and without a duration of its own
WaitsForAction(t) == t.actions /\ ~t.explicit

\* a timeout that removes the toast t fires when t's duration has elapsed on
\* the pending timer
RemovedOnTime(t) ==
  /\ toastTimer.durationMs = t.durationMs
  /\ toastTimer.elapsed = t.durationMs

\* resumeTimer on the visible toast with a positive duration starts a timer
\* of that duration at that moment
ResumeStartsTimer ==
  (/\ toastLog'.op = "resumeTimer"
   /\ toastLog'.index = 1
   /\ Head(toastQueue').durationMs > 0) =>
     toastTimer' = [id |-> Head(toastQueue').id,
                    durationMs |-> Head(toastQueue').durationMs, elapsed |-> 0]

\* C36 as stated: a toast with actions and no explicit duration, and a toast
\* whose timer was paused with pauseTimer(id), is never removed by a timer;
\* it leaves the queue only by an explicit dismiss or, after resumeTimer(id, d)
\* on the head toast, exactly when d milliseconds have elapsed.
C36_HeldUntilResumed ==
  [][/\ \A i \in 1..Len(toastLog'.removed) :
          LET t == toastLog'.removed[i]
          IN  /\ (t.paused \/ (WaitsForAction(t) /\ t.resumed # "head")) =>
                   toastLog'.op \in ExplicitDismissals
              /\ toastLog'.op = "timeout" => RemovedOnTime(t)
     /\ ResumeStartsTimer
    ]_vars

\* C36, amended: the same, where resumeTimer(id, d) for a toast that is not
\* the head gives it the duration d as well, and its timer of d milliseconds
\* starts when it becomes the head.
C36_HeldUntilGivenDuration ==
  [][/\ \A i \in 1..Len(toastLog'.removed) :
          LET t == toastLog'.removed[i]
          IN  /\ (t.paused \/ (WaitsForAction(t) /\ t.resumed = "never")) =>
                   toastLog'.op \in ExplicitDismissals
              /\ toastLog'.op = "timeout" => RemovedOnTime(t)
     /\ ResumeStartsTimer
    ]_vars

\* a toast with actions and no duration of its own was resumed as the head
\* with 2000 ms, and its timeout has removed it after 2000 ms
C36_Witness ==
  /\ toastLog.op = "timeout"
  /\ Len(toastLog.removed) = 1
  /\ WaitsForAction(toastLog.removed[1])
  /\ toastLog.removed[1].resumed = "head"
  /\ toastLog.removed[1].durationMs = 2000
  /\ toastLog.timer.elapsed = 2000

(***************************************************************************)
(* C37: undo and redo walk one timeline                                    *)
(***************************************************************************)
\* The scenes of the history from the oldest undo entry to the last scene
\* undone, the current scene among them: undo and redo move along it.
Timeline ==
  undoStack \o <<sceneSnapshot>>
    \o [i \in 1..Len(redoStack) |-> redoStack[Len(redoStack) + 1 - i]]

\* C37: k undos followed by k redos restore the scene that was current
\* before the first undo: an undo or a redo moves the current scene one
\* place along the timeline and leaves the timeline as it is, and a redo
\* takes exactly one entry off the redo stack and keeps the others.
C37_UndoRedoRoundTrip ==
  [][(historyPhase' \in {"undos", "after"} /\ edits' = edits) =>
       /\ Timeline' = Timeline
       /\ Len(redoStack') < Len(redoStack) => Len(redoStack') = Len(redoStack) - 1
    ]_vars

(***************************************************************************)
(* C38: the histories of the scene deck                                    *)
(***************************************************************************)
AllOf(stack, id) == \A i \in 1..Len(stack) : stack[i].id = id

\* C38: every snapshot in a scene's undo or redo stack is a snapshot of that
\* scene, also when addScene or activateScene changes the active scene
\* between a gesture's `down` and its `up`, and the current scene is the one
\* the active scene id names.
C38_HistoriesKeepTheirScene ==
  /\ sceneSnapshot.id = activeSceneId
  /\ AllOf(undoStack, activeSceneId)
  /\ AllOf(redoStack, activeSceneId)
  /\ \A h \in sceneHistories : AllOf(h.undo, h.id) /\ AllOf(h.redo, h.id)

(***************************************************************************)
(* C39: two pointers and the history batch                                 *)
(***************************************************************************)
\* the step handled a `move` of a pointer whose gesture is in progress
MoveWithinGesture ==
  /\ lastEvent' # lastEvent
  /\ lastEvent'.kind = "pointer"
  /\ lastEvent'.type = "move"
  /\ ptr[lastEvent'.pointerId].down

\* C39: with two pointers down at the same time, no `move` of a gesture in
\* progress creates an undo entry of its own, and no event adds more than
\* one entry, however the events of the two pointers interleave.
C39_MovesAddNoEntry ==
  [][/\ MoveWithinGesture => undoStack' = undoStack
     /\ Len(undoStack') <= Len(undoStack) + 1
    ]_vars

\* A gesture of this pointer alone, ended by `up` or `cancel`, after which the
\* scene holds the tokens and drawings it held at the `down`
LeavesSceneAsItWas(g, sc) ==
  /\ g.phase = "ended"
  /\ g.pure
  /\ g.first # <<>> => /\ g.first[1].tokens = sc.tokens
                       /\ g.first[1].drawings = sc.drawings

\* C40: in the host with history batches a gesture that leaves the scene's
\* tokens and drawings exactly as they were at its `down` adds no undo entry
\* and leaves the redo stack as it was.
C40_NoEntryForNoChange ==
  (hostKind = "batching" /\ LeavesSceneAsItWas(gesture, sceneSnapshot)) =>
     /\ Len(undoStack) = gesture.base
     /\ Len(redoStack) = gesture.redo


============================================================================
